---- MODULE Spec2Model ----
(***************************************************************************)
(* Manifest generation pipeline of kit-deploymentizer: Generator.process() *)
(* and the functions it drives (src/src/lib/generator.js, first variant).  *)
(*                                                                         *)
(* Strings the code inspects character by character (image references,    *)
(* commit ids, image tags) are sequences of one-character strings; the     *)
(* empty sequence is the empty/undefined (falsy) string.                   *)
(***************************************************************************)
EXTENDS Integers, Sequences, FiniteSets, TLC

\* ------------------------------------------------------------------ bounds
\* Longest image string enumerated for the commit verifier.
MaxImgLen == 4
\* Largest number of resources in a cluster definition.
MaxResources == 2

\* ------------------------------------------------------- commit verifier
\* Character class [a-f0-9] under the /i flag of imageSHARegex.
HexChars ==
  {"a", "b", "c", "d", "e", "f", "A", "B", "C", "D", "E", "F",
   "0", "1", "2", "3", "4", "5", "6", "7", "8", "9"}

\* Positions where /:.+-([a-f0-9]+)/ can start: a ':' at i, then at least
\* one character, then a '-' at j that is directly followed by a hex digit.
DashAfter(s, i) ==
  {j \in (i + 2)..(Len(s) - 1) : s[j] = "-" /\ s[j + 1] \in HexChars}

SetMin(S) == CHOOSE x \in S : \A y \in S : x <= y

SetMax(S) == CHOOSE x \in S : \A y \in S : x >= y

\* Last index of the run of hex digits that starts at position k.
RECURSIVE HexRunEnd(_, _)
HexRunEnd(s, k) ==
  IF k + 1 <= Len(s) /\ s[k + 1] \in HexChars THEN HexRunEnd(s, k + 1) ELSE k

\* imageSHARegex.exec(image): the first capture group, or <<>> when the
\* expression does not match.  The match starts at the leftmost possible
\* ':', '.+' is greedy (the last usable '-'), and so is the hex group.
imageSHARegex(s) ==
  LET starts == {i \in 1..Len(s) : s[i] = ":" /\ DashAfter(s, i) /= {}}
  IN IF starts = {} THEN <<>>
     ELSE LET i == SetMin(starts)
              j == SetMax(DashAfter(s, i))
          IN SubSeq(s, j + 1, HexRunEnd(s, j + 1))

\* The _.reduce over the direct properties of localConfig: the tokens of the
\* images, in property order.  images[k] = <<>> stands for a property
\* without an image (or with an empty one).
RECURSIVE imageSHAs(_)
imageSHAs(images) ==
  IF images = <<>> THEN <<>>
  ELSE LET sha == imageSHARegex(Head(images))
       IN (IF sha = <<>> THEN <<>> ELSE <<sha>>) \o imageSHAs(Tail(images))

SeqIncludes(seq, x) == \E k \in 1..Len(seq) : seq[k] = x

\* The verifier without the `imageSHAs.length > 0` test.
verifyWithoutLengthTest(images, commitId) ==
  IF commitId = <<>> THEN [throws |-> FALSE, shas |-> <<>>, checked |-> FALSE]
  ELSE [throws |-> ~SeqIncludes(imageSHAs(images), commitId),
        shas |-> imageSHAs(images),
        checked |-> TRUE]

\* The verifier asking every token to match instead of one.
verifyEveryImage(images, commitId) ==
  IF commitId = <<>> THEN [throws |-> FALSE, shas |-> <<>>, checked |-> FALSE]
  ELSE [throws |-> \E k \in 1..Len(imageSHAs(images)) :
                     imageSHAs(images)[k] /= commitId,
        shas |-> imageSHAs(images),
        checked |-> TRUE]

\* Generator._verifyImagesForCommitId: throws (with the list of tokens in
\* the message) or returns.
verifyImagesForCommitId(images, commitId) ==
  IF commitId = <<>> THEN [throws |-> FALSE, shas |-> <<>>, checked |-> FALSE]
  ELSE LET shas == imageSHAs(images)
       IN [throws |-> Len(shas) > 0 /\ ~SeqIncludes(shas, commitId),
           shas |-> shas,
           checked |-> TRUE]


\* ------------------------------------------------------ cluster fixtures
\* clusterDef.branch(): the cluster's default branch.
defaultBranch == "develop"

\* Image references of the lookup table (':<label>-<sha>' convention).
ImgA == <<"i", ":", "b", "-", "a">>
ImgB == <<"i", ":", "b", "-", "b">>
ImgPlain == <<"i">>

\* options.imageResourceDefs: image_tag -> branch -> image.
imageResourceDefs ==
  (<<"n">> :> ("develop" :> ImgA @@ "testing" :> ImgB)) @@
  (<<"w">> :> ("develop" :> ImgPlain))

\* An env entry {name, value}; the value is a sequence of characters.
EnvVar(name, value) == [name |-> name, value |-> value]

\* A container artifact as written in the cluster definition.  name = ""
\* and image = <<>>, image_tag = <<>>, branch = "", env = <<>> are unset
\* fields; primary is "undef", "true" or "false".
Art(name, image, tag, branch, primary) ==
  [name |-> name, image |-> image, image_tag |-> tag, branch |-> branch,
   primary |-> primary, env |-> << >>]

\* The artifact with an `env:` list declared.
WithEnv(art, env) == [art EXCEPT !.env = env]

\* The env list a fixture artifact declares, and the one the
\* configuration plugin answers with: they share the name "ONE".
DeclaredEnv == << EnvVar("test", <<"t">>), EnvVar("ONE", <<"d">>) >>

FetchedEnv == << EnvVar("ONE", <<"1">>), EnvVar("THREE", <<"3">>) >>

NoArt == Art("", <<>>, <<>>, "", "undef")

NoFile == [name |-> "", ext |-> ""]

\* A resource spec.  hasContainers = FALSE: the resource itself is the one
\* artifact (its fields are in self).  file.ext = "" is no file, svc = ""
\* no service descriptor.
Res(name, disable, file, svc, hasContainers, self, containers) ==
  [name |-> name, disable |-> disable, file |-> file, svc |-> svc,
   hasContainers |-> hasContainers, self |-> self, containers |-> containers]

Catalogue ==
  << Res("auth", FALSE, [name |-> "auth", ext |-> ".mustache"], "auth-svc", TRUE,
         NoArt,
         << [name |-> "auth-con",
             container |-> WithEnv(Art("", <<>>, <<"n">>, "", "undef"), DeclaredEnv)] >>),
     Res("bad", FALSE, [name |-> "bad", ext |-> ".txt"], "bad-svc", TRUE,
         NoArt,
         << [name |-> "bad-con", container |-> Art("", ImgB, <<>>, "", "undef")],
            [name |-> "bid-con", container |-> Art("bid", ImgB, <<"x">>, "", "undef")] >>),
     Res("job", TRUE, [name |-> "job", ext |-> ".mustache"], "job-svc", FALSE,
         Art("", <<>>, <<"n">>, "", "undef"), << >>),
     Res("pair", FALSE, [name |-> "pair", ext |-> ".mustache"], "", TRUE,
         NoArt,
         << [name |-> "pair-con", container |-> Art("", <<>>, <<"n">>, "", "true")],
            [name |-> "side-con", container |-> Art("side", <<>>, <<"w">>, "", "false")] >>),
     Res("duo", FALSE, [name |-> "duo", ext |-> ".yaml"], "web", TRUE,
         NoArt,
         << [name |-> "duo-con", container |-> Art("", <<>>, <<"n">>, "testing", "undef")],
            [name |-> "dog-con", container |-> Art("dog", <<>>, <<>>, "", "undef")] >>),
     Res("lost", FALSE, NoFile, "lost-svc", FALSE,
         Art("", <<>>, <<"x">>, "", "undef"), << >>),
     Res("web", FALSE, [name |-> "web", ext |-> ".yaml"], "", FALSE,
         WithEnv(Art("", <<>>, <<"n">>, "testing", "undef"),
                 << EnvVar("test", <<"t">>) >>), << >>),
     Res("gone", FALSE, [name |-> "gone", ext |-> ".yaml"], "", FALSE,
         Art("", <<>>, <<"w">>, "testing", "undef"), << >>) >>

\* The k-th smallest element of a set of numbers.
Kth(S, k) == CHOOSE x \in S : Cardinality({y \in S : y < x}) = k - 1

\* Resource maps of at most n resources: resource names are unique, and the
\* resources are declared in the order of the catalogue.
ResourceMaps(n) ==
  { [k \in 1..Cardinality(S) |-> Catalogue[Kth(S, k)]] :
      S \in {T \in SUBSET (1..Len(Catalogue)) : Cardinality(T) <= n} }

\* Commit ids handed to the constructor; <<>> is none, <<"a">> is made of
\* hex digits, <<"a", "w">> is not.
CommitIds == {<< >>, <<"a">>, <<"a", "w">>}

\* ---------------------------------------------------------------- state
VARIABLES
  clusterDef,   \* [nil, resources, allowFailure]: the cluster definition
  options,      \* [save, resource, commitId] of the constructor
  configPlugin, \* TRUE when a configuration plugin is configured
  launchDarkly, \* TRUE when a feature flag client is configured
  pc,           \* position of the process() coroutine chain
  ri,           \* index into the resource map of the resource in hand
  ci,           \* index of the container in hand
  localConfig,  \* the LocalConfiguration being built
  err,          \* the error travelling to the resource boundary
  inflight,     \* external calls issued and not yet settled
  dirExists,    \* the cluster's output directory exists
  files,        \* paths written below the output directory
  events,       \* what the event handler was asked to emit, in order
  calls,        \* history: resources begun, calls issued and settled
  writes,       \* history: copy/save operations issued
  outcomes,     \* history: how each visited resource ended
  answers,      \* what the collaborators answered, by call
  run,          \* 1: first process() call, 2: repeated with save flipped
  firstRun,     \* summary of run 1
  built,        \* history: the LocalConfigurations returned, by resource
  vImages, vCommitId, vResult, \* the commit verifier called on its own
  ePc,          \* position of ElroySync.SaveToElroy
  retryCount,   \* its retryCount argument, as the catch handler sees it
  eRequests,    \* history: the requests it made, with the status answered
  eReason,      \* the reason SaveToElroy rejected with
  dPc,          \* position of ElroySync.RemoveDeploymentEnvironments
  dDefs,        \* the cluster definitions it was given: [names, others]
  dList,        \* what Elroy answered the list request with
  dUpdates,     \* history: the updates it issued, in order
  dInflight,    \* the updates issued and not yet settled
  xPc,          \* position of EnvApiClient.fetch
  xClient,      \* the client and the arguments of the call
  xVersion,     \* envapiVersion, once determined
  xRequests,    \* history: the requests made, by endpoint
  xResponse,    \* the response in hand
  xFlag,        \* history: what the api-v4-call flag answered, "" unasked
  xMetrics,     \* history: what the events sink was asked to emit
  xResult       \* how the promise of fetch settled

genVars == <<clusterDef, options, configPlugin, launchDarkly, pc, ri, ci,
             localConfig, err, inflight, dirExists, files, events, calls,
             writes, outcomes, answers, run, firstRun, built>>

verVars == <<vImages, vCommitId, vResult>>

elroyVars == <<ePc, retryCount, eRequests, eReason>>

removeVars == <<dPc, dDefs, dList, dUpdates, dInflight>>

envApiVars == <<xPc, xClient, xVersion, xRequests, xResponse, xFlag, xMetrics, xResult>>

settings == <<options, configPlugin, launchDarkly>>

inputs == <<clusterDef, settings>>

vars == <<genVars, verVars, elroyVars, removeVars, envApiVars>>

\* clusterDef.configuration(): the cluster's default configuration.
DefaultConfiguration == [branch |-> "", name |-> "", svc |-> ""]

\* No LocalConfiguration.  same: the object is the default configuration
\* itself and not a copy of it.
NoConfig == [branch |-> "", name |-> "", svc |-> "", containers |-> << >>,
             same |-> FALSE]

NoRun == [save |-> FALSE, pc |-> "", events |-> << >>, outcomes |-> << >>,
          writeFailed |-> FALSE, built |-> << >>]

\* `retryCount` when the caller passed none.
Undefined == 0 - 1

\* No reason: SaveToElroy has not rejected.
NoReason == [method |-> "", status |-> 0, typeError |-> FALSE]

\* ElroySync.SaveToElroy is not called.
ElroyIdle ==
  /\ ePc = "idle"
  /\ retryCount = Undefined
  /\ eRequests = << >>
  /\ eReason = NoReason

\* What Elroy answers a list request with when none was made.
NoList == [failed |-> FALSE, count |-> 0, items |-> << >>]

\* ElroySync.RemoveDeploymentEnvironments is not called.
RemoveIdle ==
  /\ dPc = "idle"
  /\ dDefs = [names |-> {}, others |-> 0]
  /\ dList = NoList
  /\ dUpdates = << >>
  /\ dInflight = {}

\* An EnvApiClient and the arguments of fetch: whether an events sink and
\* a feature flag client are configured, whether the service carries the
\* env-api-service annotation and the resource-name annotation, whether
\* the cluster is given as a string.
Client(sink, flags, annotated, named, clusterIsString) ==
  [events |-> sink, launchDarkly |-> flags, annotated |-> annotated,
   named |-> named, clusterIsString |-> clusterIsString]

\* The promise of fetch is pending.
Pending == [state |-> "pending", defined |-> FALSE, env |-> << >>, message |-> ""]

\* No response has arrived.
NoResponseYet == [failed |-> FALSE, statusCode |-> 0, hasValues |-> FALSE]

\* EnvApiClient.fetch is not called.
EnvApiIdle ==
  /\ xPc = "idle"
  /\ xClient = Client(FALSE, FALSE, FALSE, FALSE, FALSE)
  /\ xVersion = ""
  /\ xRequests = << >>
  /\ xResponse = NoResponseYet
  /\ xFlag = ""
  /\ xMetrics = << >>
  /\ xResult = Pending

\* The state after `new Generator(...)`.
Init ==
  /\ clusterDef \in
       [nil : {FALSE},
        resources : ResourceMaps(MaxResources),
        allowFailure : BOOLEAN,
        configuration : {DefaultConfiguration}]
       \cup [nil : {TRUE}, resources : {<< >>}, allowFailure : BOOLEAN,
             configuration : {DefaultConfiguration}]
  /\ options \in [save : BOOLEAN, resource : {"", "web", "nope"},
                  commitId : CommitIds]
  /\ configPlugin \in BOOLEAN
  /\ launchDarkly \in BOOLEAN
  /\ pc = "init"
  /\ ri = 0
  /\ ci = 0
  /\ localConfig = NoConfig
  /\ err = ""
  /\ inflight = {}
  /\ dirExists \in BOOLEAN
  /\ files = {}
  /\ events = << >>
  /\ calls = << >>
  /\ writes = << >>
  /\ outcomes = << >>
  /\ answers = {}
  /\ run = 1
  /\ firstRun = NoRun
  /\ built = << >>
  /\ vImages = << >>
  /\ vCommitId = << >>
  /\ vResult = [done |-> FALSE, throws |-> FALSE, shas |-> << >>]
  /\ ElroyIdle
  /\ RemoveIdle
  /\ EnvApiIdle


\* ------------------------------------------------------------- helpers
Ev(sev, by, what, res) == [sev |-> sev, by |-> by, what |-> what, res |-> res]

Call(ev, kind, res, con, out) ==
  [ev |-> ev, kind |-> kind, res |-> res, con |-> con, out |-> out]

Op(kind, res, con) == [kind |-> kind, res |-> res, con |-> con]

\* resources[name]: the index of the resource called name, 0 when absent.
IndexOf(resources, name) ==
  IF \E i \in 1..Len(resources) : resources[i].name = name
  THEN CHOOSE i \in 1..Len(resources) : resources[i].name = name
  ELSE 0

\* keys[i] and resources[resourceName] of the loop over Object.keys.
ResourceAtReversed(resources, i) == resources[Len(resources) + 1 - i]

ResourceAt(resources, i) == resources[i]

\* _.cloneDeep(value): the copy, and whether it is the same object as the
\* value (a write to it would then be a write to the value).
cloneByReference(value) == [value |-> value, same |-> TRUE]

cloneDeep(value) == [value |-> value, same |-> FALSE]

\* Where the resource in hand sits in the resource map.
CurrentIndex ==
  IF options.resource /= "" THEN IndexOf(clusterDef.resources, options.resource)
  ELSE ri

\* A write to the k-th container artifact of the i-th resource of the
\* cluster definition.
WriteArtifact(cd, i, k, art) ==
  IF cd.resources[i].hasContainers
  THEN [cd EXCEPT !.resources[i].containers[k].container = art]
  ELSE [cd EXCEPT !.resources[i].self = art]

\* The resource process() has in hand: the requested one, or the loop's.
Current ==
  IF options.resource /= ""
  THEN clusterDef.resources[IndexOf(clusterDef.resources, options.resource)]
  ELSE ResourceAt(clusterDef.resources, ri)

\* `resource.disable === true` decides whether anything is built.
BuildsAlways(resource, opts) == TRUE

BuildsOnlyWhenSaving(resource, opts) == resource.disable /= TRUE /\ opts.save

BuildsLocalConfig(resource, opts) == resource.disable /= TRUE

\* `this.options.save === true` guards every copy and save.
SaveAlways(opts) == TRUE

SaveIsOn(opts) == opts.save = TRUE

\* The catch at the resource boundary: warn and go on, or rethrow.
AlwaysWarn(cd) == "warn"

CatchDecision(cd) == IF cd.allowFailure THEN "warn" ELSE "throw"

\* The switch on fileStats.ext.
FileKindYamlRendered(ext) ==
  IF ext \in {".yaml", ".mustache"} THEN "render" ELSE "unknown"

FileKind(ext) ==
  IF ext = ".yaml" THEN "copy"
  ELSE IF ext = ".mustache" THEN "render"
  ELSE "unknown"

\* i++ of the loop over the keys.
SkipIndex(i) == i + 2

NextIndex(i) == i + 1

\* The containers of a resource as the array _createLocalConfiguration
\* builds: one per key of resource.containers, or the resource itself.
ContainersIgnored(resource) ==
  << [name |-> resource.name, container |-> resource.self] >>

Containers(resource) ==
  IF resource.hasContainers THEN resource.containers
  ELSE << [name |-> resource.name, container |-> resource.self] >>

\* localConfig[containerName]: position of the entry, 0 when absent.
EntryIndex(lc, key) ==
  IF \E k \in 1..Len(lc.containers) : lc.containers[k].key = key
  THEN CHOOSE k \in 1..Len(lc.containers) : lc.containers[k].key = key
  ELSE 0

\* localConfig[containerName] = artifact.
SetEntry(lc, key, art) ==
  IF EntryIndex(lc, key) = 0
  THEN [lc EXCEPT !.containers =
          Append(@, [key |-> key, art |-> art, same |-> FALSE])]
  ELSE [lc EXCEPT !.containers[EntryIndex(lc, key)].art = art]

Entry(lc, key) == lc.containers[EntryIndex(lc, key)].art

\* The images of the direct properties of localConfig, in property order.
ConfigImages(lc) == [k \in 1..Len(lc.containers) |-> lc.containers[k].art.image]

\* Generator.isMatchingPrimaryImg: "true", "false" or "throw".
isMatchingPrimaryImgUndefinedIsFalse(countContainers, isPrimary) ==
  IF countContainers = 1 THEN "true"
  ELSE IF isPrimary = "undef" THEN "false"
  ELSE isPrimary

isMatchingPrimaryImg(countContainers, isPrimary) ==
  IF countContainers = 1 THEN "true"
  ELSE IF isPrimary = "undef" THEN "throw"
  ELSE isPrimary

\* Generator.setImageDefault: the branch lookup.  Result: the new
\* localConfig, the events emitted and the error thrown ("" for none).
setImageDefaultLenient(containerName, lc, artifact) ==
  LET own == Entry(lc, containerName).branch
      artifactBranch == IF own /= "" THEN own ELSE lc.branch
  IN IF \/ artifact.image_tag \notin DOMAIN imageResourceDefs
        \/ artifactBranch \notin DOMAIN imageResourceDefs[artifact.image_tag]
     THEN [lc |-> lc, evs |-> << >>, err |-> ""]
     ELSE [lc |-> SetEntry(lc, containerName,
                    [Entry(lc, containerName) EXCEPT
                       !.image = imageResourceDefs[artifact.image_tag][artifactBranch]]),
           evs |-> << >>,
           err |-> ""]

setImageDefaultBranchOnly(containerName, lc, artifact) ==
  IF \/ artifact.image_tag \notin DOMAIN imageResourceDefs
     \/ defaultBranch \notin DOMAIN imageResourceDefs[artifact.image_tag]
  THEN [lc |-> lc,
        evs |-> << Ev("warn", "setImageDefault", "imageResourceDefs dump", "") >>,
        err |-> "ImageNotFound"]
  ELSE [lc |-> SetEntry(lc, containerName,
                 [Entry(lc, containerName) EXCEPT
                    !.image = imageResourceDefs[artifact.image_tag][defaultBranch]]),
        evs |-> << >>,
        err |-> ""]

setImageDefault(containerName, lc, artifact) ==
  LET own == Entry(lc, containerName).branch
      artifactBranch == IF own /= "" THEN own ELSE lc.branch
  IN IF \/ artifact.image_tag \notin DOMAIN imageResourceDefs
        \/ artifactBranch \notin DOMAIN imageResourceDefs[artifact.image_tag]
     THEN [lc |-> lc,
           evs |-> << Ev("warn", "setImageDefault", "imageResourceDefs dump", "") >>,
           err |-> "ImageNotFound"]
     ELSE [lc |-> SetEntry(lc, containerName,
                    [Entry(lc, containerName) EXCEPT
                       !.image = imageResourceDefs[artifact.image_tag][artifactBranch]]),
           evs |-> << >>,
           err |-> ""]

\* The image the commit-SHA strategy synthesizes:
\* `quay.io/${image_tag}:release-${commitId}`.
ReleaseImageUntagged(tag, commitId) == <<"q", "/">> \o tag \o <<":", "r">>

ReleaseImage(tag, commitId) == <<"q", "/">> \o tag \o <<":", "r", "-">> \o commitId

\* Generator.setImageSHA.
setImageSHAPrimaryFirst(containersLength, containerName, lc, artifact) ==
  LET m == isMatchingPrimaryImg(containersLength, artifact.primary)
  IN IF m = "throw"
     THEN [lc |-> lc, evs |-> << >>, err |-> "NoPrimary"]
     ELSE IF options.commitId = << >>
     THEN LET d == setImageDefault(containerName, lc, artifact)
          IN [d EXCEPT !.evs =
                << Ev("warn", "setImageSHA", "No SHA passed in", artifact.name),
                   Ev("metric", "setImageSHA", "No SHA passed in", artifact.name) >> \o @]
     ELSE IF m = "true"
     THEN [lc |-> SetEntry(lc, containerName,
                    [Entry(lc, containerName) EXCEPT
                       !.image = ReleaseImage(artifact.image_tag, options.commitId)]),
           evs |-> << >>, err |-> ""]
     ELSE [lc |-> lc, evs |-> << >>, err |-> ""]

setImageSHA(containersLength, containerName, lc, artifact) ==
  IF options.commitId = << >>
  THEN LET d == setImageDefault(containerName, lc, artifact)
       IN [d EXCEPT !.evs =
             << Ev("warn", "setImageSHA", "No SHA passed in", artifact.name),
                Ev("metric", "setImageSHA", "No SHA passed in", artifact.name) >> \o @]
  ELSE LET m == isMatchingPrimaryImg(containersLength, artifact.primary)
       IN IF m = "throw"
          THEN [lc |-> lc, evs |-> << >>, err |-> "NoPrimary"]
          ELSE IF m = "true"
          THEN [lc |-> SetEntry(lc, containerName,
                         [Entry(lc, containerName) EXCEPT
                            !.image = ReleaseImage(artifact.image_tag, options.commitId)]),
                evs |-> << >>, err |-> ""]
          ELSE [lc |-> lc, evs |-> << >>, err |-> ""]

\* The .then/.catch chain of Generator.setImage once toogle() has settled
\* with answer "true", "false" or "reject".
setImageSettledFlagIgnored(answer, containersLength, containerName, lc, artifact) ==
  LET r == IF answer = "reject" THEN [lc |-> lc, evs |-> << >>, err |-> "FlagRejected"]
           ELSE setImageSHA(containersLength, containerName, lc, artifact)
  IN IF r.err = "" THEN r
     ELSE [r EXCEPT !.evs = @ \o
             << Ev("warn", "setImage", "Error setting image", artifact.name),
                Ev("metric", "setImage", "Kitserver - Error setting image", artifact.name) >>]

setImageSettled(answer, containersLength, containerName, lc, artifact) ==
  LET r == IF answer = "reject" THEN [lc |-> lc, evs |-> << >>, err |-> "FlagRejected"]
           ELSE IF answer = "true"
           THEN setImageSHA(containersLength, containerName, lc, artifact)
           ELSE setImageDefault(containerName, lc, artifact)
  IN IF r.err = "" THEN r
     ELSE [r EXCEPT !.evs = @ \o
             << Ev("warn", "setImage", "Error setting image", artifact.name),
                Ev("metric", "setImage", "Kitserver - Error setting image", artifact.name) >>]

\* What a collaborator answers to a call: what it answered to the same call
\* before, if it was asked before.
Answers(key, a) == \A x \in answers : x.key = key => x.val = a

Remember(key, a) == answers \cup {[key |-> key, val |-> a]}


\* ------------------------------------------------------------ process()
\* process() up to its first yield: createClusterDirectory asks whether
\* the output directory exists.
ProcessCall ==
  /\ pc = "init"
  /\ events' = Append(events, Ev("info", "process", "Calling process", ""))
  /\ inflight' = inflight \cup {Op("exists", "", 0)}
  /\ calls' = Append(calls, Call("call", "exists", "", 0, ""))
  /\ pc' = "exists"
  /\ UNCHANGED <<inputs, ri, ci, localConfig, err, dirExists, files, writes,
                 outcomes, answers, run, firstRun, built, verVars, elroyVars, removeVars, envApiVars>>

\* yamlHandler.exists settles: fseMkdirs is started when the directory is
\* missing (its promise is dropped), then process() looks at the resources
\* and enters the first processSingleResource, or returns.
ExistsSettles ==
  /\ pc = "exists"
  /\ Op("exists", "", 0) \in inflight
  /\ inflight' = (inflight \ {Op("exists", "", 0)})
                   \cup (IF dirExists THEN {} ELSE {Op("mkdirs", "", 0)})
  /\ calls' = calls \o << Call("settle", "exists", "", 0, "ok") >>
                \o (IF dirExists THEN << >>
                    ELSE << Call("call", "mkdirs", "", 0, "") >>)
  /\ IF clusterDef.nil
     THEN /\ events' = Append(events, Ev("warn", "process", "No Resources defined", ""))
          /\ pc' = "fulfilled"
          /\ ri' = ri
     ELSE IF options.resource /= ""
     THEN IF IndexOf(clusterDef.resources, options.resource) = 0
          THEN /\ events' = Append(events,
                    Ev("warn", "process", "Resource requested was not found",
                       options.resource))
               /\ pc' = "fulfilled"
               /\ ri' = ri
          ELSE /\ events' = events
               /\ pc' = "resource"
               /\ ri' = ri
     ELSE /\ events' = events
          /\ IF Len(clusterDef.resources) >= 1
             THEN pc' = "resource" /\ ri' = 1
             ELSE pc' = "fulfilled" /\ ri' = ri
  /\ UNCHANGED <<inputs, ci, localConfig, err, dirExists, files, writes,
                 outcomes, answers, run, firstRun, built, verVars, elroyVars, removeVars, envApiVars>>

\* Positions where the coroutine chain is suspended or has ended: only
\* there can the completion of another operation be delivered.
Suspended ==
  pc \in {"resource", "fetch", "flag", "read", "save", "copy", "svcread",
          "svcsave", "settled", "fulfilled", "rejected"}

\* The dropped fseMkdirs completes at some later time.
MkdirsSettles ==
  /\ Op("mkdirs", "", 0) \in inflight
  /\ Suspended
  /\ inflight' = inflight \ {Op("mkdirs", "", 0)}
  /\ dirExists' = TRUE
  /\ UNCHANGED <<inputs, pc, ri, ci, localConfig, err, files, events, calls,
                 writes, outcomes, answers, run, firstRun, built, verVars, elroyVars, removeVars, envApiVars>>

\* processSingleResource is entered: a disabled resource is skipped,
\* otherwise _createLocalConfiguration runs up to its container loop.
ProcessSingleResource ==
  /\ pc = "resource"
  /\ LET r == Current
     IN /\ calls' = Append(calls, Call("begin", "resource", r.name, 0, ""))
        /\ IF ~BuildsLocalConfig(r, options)
           THEN /\ events' = Append(events,
                     Ev("debug", "processSingleResource", "disabled, skipping", r.name))
                /\ outcomes' = Append(outcomes,
                     [res |-> r.name, result |-> "skipped", err |-> ""])
                /\ pc' = "settled"
                /\ UNCHANGED <<localConfig, ci, clusterDef>>
           ELSE LET cl == cloneDeep(clusterDef.configuration)
                    branch == IF r.self.branch /= "" THEN r.self.branch
                              ELSE defaultBranch
                IN /\ localConfig' =
                        [branch |-> branch, name |-> r.name, svc |-> cl.value.svc,
                         containers |-> << >>, same |-> cl.same]
                   /\ clusterDef' =
                        IF cl.same
                        THEN [clusterDef EXCEPT !.configuration.branch = branch,
                                                !.configuration.name = r.name]
                        ELSE clusterDef
                   /\ ci' = 1
                   /\ pc' = IF Len(Containers(r)) = 0 THEN "verify" ELSE "container"
                   /\ UNCHANGED <<events, outcomes>>
  /\ UNCHANGED <<settings, ri, err, inflight, dirExists, files, writes, answers,
                 run, firstRun, built, verVars, elroyVars, removeVars, envApiVars>>

\* The names of an env list.
EnvNames(env) == {env[k].name : k \in 1..Len(env)}

\* resourceHandler.loadExternalEnv: the entries with the values that are
\* references to the outside (a leading "$") replaced by what they refer to.
loadExternalEnv(env) ==
  [k \in 1..Len(env) |->
     IF Len(env[k].value) > 0 /\ Head(env[k].value) = "$"
     THEN EnvVar(env[k].name, Tail(env[k].value))
     ELSE env[k]]

\* resourceHandler.mergeEnvs: the entries of base, then the entries of
\* custom under a name base does not have.
mergeEnvs(base, custom) ==
  base \o SelectSeq(custom, LAMBDA e : e.name \notin EnvNames(base))

\* resourceHandler.merge: the artifact with the fields of the fetched
\* configuration laid over it.
merge(artifact, envConfig) == [artifact EXCEPT !.env = envConfig.env]

\* What configPlugin.fetch resolves to: `{ env: [...] }`.
FetchedConfig(artifact) == [env |-> FetchedEnv]

\* `if (artifact.env) { localConfig[containerName].env = mergeEnvs(...) }`:
\* the stored entry after the artifact's own env list is merged in.
MergeDeclaredEnvSkipped(entry, artifact) == entry

MergeDeclaredEnv(entry, artifact) ==
  IF artifact.env /= << >>
  THEN [entry EXCEPT !.env = mergeEnvs(entry.env, loadExternalEnv(artifact.env))]
  ELSE entry

\* Top of the container loop: clone the artifact, name it, store it, and
\* call the configuration plugin when there is one; without one the
\* artifact's env is merged right away.
ContainerStep ==
  /\ pc = "container"
  /\ LET r == Current
         c == Containers(r)[ci]
         cl == cloneDeep(c.container)
         artifact == [cl.value EXCEPT !.name = IF @ /= "" THEN @ ELSE r.name]
         entry == IF configPlugin THEN artifact
                  ELSE MergeDeclaredEnv(artifact, artifact)
         stored == SetEntry(localConfig, c.name, entry)
     IN /\ localConfig' =
             [stored EXCEPT !.containers[EntryIndex(stored, c.name)].same = cl.same]
        /\ clusterDef' = IF cl.same
                         THEN WriteArtifact(clusterDef, CurrentIndex, ci, entry)
                         ELSE clusterDef
        /\ IF configPlugin
           THEN /\ inflight' = inflight \cup {Op("fetch", r.name, ci)}
                /\ calls' = Append(calls, Call("call", "fetch", r.name, ci, ""))
                /\ pc' = "fetch"
           ELSE /\ pc' = "image"
                /\ UNCHANGED <<inflight, calls>>
  /\ UNCHANGED <<settings, ri, ci, err, dirExists, files, events, writes,
                 outcomes, answers, run, firstRun, built, verVars, elroyVars, removeVars, envApiVars>>

\* `yield this.configPlugin.fetch(...)`: where the coroutine goes on once
\* the fetch has settled; a rejection is thrown at the yield.
AfterFetchSwallowed(a) == "image"

AfterFetchPending(a) == "fetch"

AfterFetch(a) == IF a = "ok" THEN "image" ELSE "caught"

\* configPlugin.fetch settles: its result is merged over the artifact and
\* the artifact's env merged in, or its failure leaves
\* _createLocalConfiguration.
FetchSettles ==
  /\ pc = "fetch"
  /\ LET r == Current
         key == Op("fetch", r.name, ci)
         c == Containers(r)[ci]
         artifact == Entry(localConfig, c.name)
         entry == MergeDeclaredEnv(merge(artifact, FetchedConfig(artifact)), artifact)
         shared == localConfig.containers[EntryIndex(localConfig, c.name)].same
     IN /\ key \in inflight
        /\ \E a \in {"ok", "fail"} :
             /\ Answers(key, a)
             /\ answers' = Remember(key, a)
             /\ inflight' = inflight \ {key}
             /\ calls' = Append(calls, Call("settle", "fetch", r.name, ci, a))
             /\ pc' = AfterFetch(a)
             /\ err' = IF AfterFetch(a) = "caught" THEN "FetchFailed" ELSE err
             /\ localConfig' = IF a = "ok" THEN SetEntry(localConfig, c.name, entry)
                               ELSE localConfig
             /\ clusterDef' = IF a = "ok" /\ shared
                              THEN WriteArtifact(clusterDef, CurrentIndex, ci, entry)
                              ELSE clusterDef
  /\ UNCHANGED <<settings, ri, ci, dirExists, files, events, writes,
                 outcomes, run, firstRun, built, verVars, elroyVars, removeVars, envApiVars>>

\* `if (!localConfig[containerName].image)` of _createLocalConfiguration.
ImageNeverDefined(art) == FALSE

ImageAlreadyDefined(art) == art.image /= << >>

\* `if (artifact.image_tag)` of _createLocalConfiguration.
HasImageTagAlways(artifact) == TRUE

HasImageTag(artifact) == artifact.image_tag /= << >>

\* The rest of a container's turn up to setImage's flag query: an image
\* that is already set, a missing image_tag, or the call of toogle().
ImageStep ==
  /\ pc = "image"
  /\ LET r == Current
         c == Containers(r)[ci]
         artifact == [c.container EXCEPT !.name = IF @ /= "" THEN @ ELSE r.name]
         last == ci >= Len(Containers(r))
     IN IF ImageAlreadyDefined(Entry(localConfig, c.name))
        THEN /\ events' = Append(events,
                  Ev("warn", "_createLocalConfiguration", "Image already defined",
                     artifact.name))
             /\ pc' = IF last THEN "verify" ELSE "container"
             /\ ci' = IF last THEN ci ELSE ci + 1
             /\ UNCHANGED <<inflight, calls, err>>
        ELSE IF ~HasImageTag(artifact)
        THEN /\ events' = events \o
                  << Ev("warn", "_createLocalConfiguration", "No image tag found",
                        artifact.name),
                     Ev("metric", "_createLocalConfiguration", "No image tag found",
                        artifact.name) >>
             /\ pc' = IF last THEN "verify" ELSE "container"
             /\ ci' = IF last THEN ci ELSE ci + 1
             /\ UNCHANGED <<inflight, calls, err>>
        ELSE IF ~launchDarkly
        THEN \* self.launchDarkly is undefined: .toogle throws a TypeError
             /\ pc' = "caught"
             /\ err' = "TypeError"
             /\ UNCHANGED <<inflight, calls, events, ci>>
        ELSE /\ inflight' = inflight \cup {Op("flag", r.name, ci)}
             /\ calls' = Append(calls, Call("call", "flag", r.name, ci, ""))
             /\ pc' = "flag"
             /\ UNCHANGED <<events, ci, err>>
  /\ UNCHANGED <<inputs, ri, localConfig, dirExists, files, writes, outcomes,
                 answers, run, firstRun, built, verVars, elroyVars, removeVars, envApiVars>>

\* The flag query settles and setImage's handlers run.
FlagSettles ==
  /\ pc = "flag"
  /\ LET r == Current
         c == Containers(r)[ci]
         artifact == [c.container EXCEPT !.name = IF @ /= "" THEN @ ELSE r.name]
         last == ci >= Len(Containers(r))
         key == Op("flag", r.name, ci)
     IN /\ key \in inflight
        /\ \E a \in {"true", "false", "reject"} :
             LET s == setImageSettled(a, Len(Containers(r)), c.name, localConfig,
                                      artifact)
             IN /\ Answers(key, a)
                /\ answers' = Remember(key, a)
                /\ inflight' = inflight \ {key}
                /\ calls' = Append(calls, Call("settle", "flag", r.name, ci, a))
                /\ events' = events \o s.evs
                /\ localConfig' = s.lc
                /\ clusterDef' =
                     IF localConfig.containers[EntryIndex(localConfig, c.name)].same
                     THEN WriteArtifact(clusterDef, CurrentIndex, ci,
                                        Entry(s.lc, c.name))
                     ELSE clusterDef
                /\ IF s.err /= ""
                   THEN pc' = "caught" /\ err' = s.err /\ ci' = ci
                   ELSE /\ pc' = IF last THEN "verify" ELSE "container"
                        /\ ci' = IF last THEN ci ELSE ci + 1
                        /\ err' = err
  /\ UNCHANGED <<settings, ri, dirExists, files, writes, outcomes, run, firstRun, built,
                 verVars, elroyVars, removeVars, envApiVars>>

\* Where _createLocalConfiguration goes on after the call of
\* Generator._verifyImagesForCommitId: what it throws leaves the
\* coroutine.
AfterVerifyIgnored(throws) == "file"

AfterVerify(throws) == IF throws THEN "caught" ELSE "file"

\* End of _createLocalConfiguration: the commit verification, then the
\* service descriptor is appended and the configuration returned.
VerifyStep ==
  /\ pc = "verify"
  /\ LET r == Current
         v == verifyImagesForCommitId(ConfigImages(localConfig), options.commitId)
     IN /\ calls' = Append(calls,
                       Call("verify", "verify", r.name, Len(localConfig.containers),
                            IF v.throws THEN "throws" ELSE "ok"))
        /\ pc' = AfterVerify(v.throws)
        /\ IF v.throws
           THEN /\ events' = Append(events,
                     Ev("fatal", "_verifyImagesForCommitId", "none of the SHAs match",
                        ""))
                /\ err' = "CommitMismatch"
                /\ UNCHANGED <<localConfig, clusterDef, built>>
           ELSE /\ events' = IF v.checked
                             THEN Append(events,
                                    Ev("info", "_verifyImagesForCommitId",
                                       "Verified images", ""))
                             ELSE events
                /\ localConfig' = [localConfig EXCEPT
                                     !.svc = IF r.svc /= "" THEN r.svc ELSE @]
                /\ clusterDef' = IF localConfig.same /\ r.svc /= ""
                                 THEN [clusterDef EXCEPT !.configuration.svc = r.svc]
                                 ELSE clusterDef
                /\ built' = Append(built, [res |-> r.name, config |-> localConfig'])
                /\ err' = err
  /\ UNCHANGED <<settings, ri, ci, inflight, dirExists, files, writes,
                 outcomes, answers, run, firstRun, verVars, elroyVars, removeVars, envApiVars>>


\* Where a write lands below the output directory: fseCopy keeps
\* fileStats.base, saveResourceFile names a YAML file after its argument.
CopyPath(file) == [name |-> file.name, ext |-> file.ext]

SavePath(name) == [name |-> name, ext |-> ".yaml"]

Write(op, res, path, rendered) ==
  [op |-> op, res |-> res, path |-> path, rendered |-> rendered]

\* processSingleResource after the build: the switch on the extension of
\* resource.file, up to the first call of the branch taken.
FileStep ==
  /\ pc = "file"
  /\ LET r == Current
         kind == FileKind(r.file.ext)
         dbg == Ev("debug", "processSingleResource", "Processing Resource", r.name)
     IN IF r.file.name = ""
        THEN /\ pc' = "svc"
             /\ UNCHANGED <<events, inflight, calls, writes, err>>
        ELSE IF kind = "copy"
        THEN IF SaveIsOn(options)
             THEN /\ events' = events \o
                       << dbg, Ev("debug", "processCopyResource", "Copying file", r.name) >>
                  /\ inflight' = inflight \cup {Op("copy", r.name, 0)}
                  /\ calls' = Append(calls, Call("call", "copy", r.name, 0, ""))
                  /\ writes' = Append(writes,
                       Write("copy", r.name, CopyPath(r.file), FALSE))
                  /\ pc' = "copy"
                  /\ err' = err
             ELSE /\ events' = events \o
                       << dbg, Ev("debug", "processCopyResource", "Copying file", r.name),
                          Ev("debug", "processCopyResource", "Saving is disabled", r.name) >>
                  /\ pc' = "svc"
                  /\ UNCHANGED <<inflight, calls, writes, err>>
        ELSE IF kind = "render"
        THEN /\ events' = Append(events, dbg)
             /\ inflight' = inflight \cup {Op("read", r.name, 0)}
             /\ calls' = Append(calls, Call("call", "read", r.name, 0, ""))
             /\ pc' = "read"
             /\ UNCHANGED <<writes, err>>
        ELSE /\ events' = Append(events, dbg)
             /\ pc' = "caught"
             /\ err' = "UnknownFileType"
             /\ UNCHANGED <<inflight, calls, writes>>
  /\ UNCHANGED <<inputs, ri, ci, localConfig, dirExists, files, outcomes,
                 answers, run, firstRun, built, verVars, elroyVars, removeVars, envApiVars>>

\* processResource once the template is read: render, then save or skip.
\* The try/catch around it swallows a failed read.
ReadSettles ==
  /\ pc = "read"
  /\ LET r == Current
         key == Op("read", r.name, 0)
     IN /\ key \in inflight
        /\ \E a \in {"ok", "fail"} :
             /\ Answers(key, a)
             /\ answers' = Remember(key, a)
             /\ IF a = "fail"
                THEN /\ inflight' = inflight \ {key}
                     /\ calls' = Append(calls, Call("settle", "read", r.name, 0, a))
                     /\ pc' = "svc"
                     /\ UNCHANGED <<events, writes>>
                ELSE IF SaveIsOn(options)
                THEN /\ inflight' = (inflight \ {key}) \cup {Op("save", r.name, 0)}
                     /\ calls' = calls \o
                          << Call("settle", "read", r.name, 0, a),
                             Call("render", "file", r.name, 0, ""),
                             Call("call", "save", r.name, 0, "") >>
                     /\ writes' = Append(writes,
                          Write("save", r.name, SavePath(r.file.name), TRUE))
                     /\ pc' = "save"
                     /\ UNCHANGED events
                ELSE /\ inflight' = inflight \ {key}
                     /\ calls' = calls \o
                          << Call("settle", "read", r.name, 0, a),
                             Call("render", "file", r.name, 0, "") >>
                     /\ events' = Append(events,
                          Ev("debug", "processResource", "Saving is disabled", r.name))
                     /\ pc' = "svc"
                     /\ UNCHANGED writes
  /\ UNCHANGED <<inputs, ri, ci, localConfig, err, dirExists, files, outcomes,
                 run, firstRun, built, verVars, elroyVars, removeVars, envApiVars>>

\* saveResourceFile of processResource settles; a failure is swallowed by
\* the try/catch.
SaveSettles ==
  /\ pc = "save"
  /\ LET r == Current
         key == Op("save", r.name, 0)
     IN /\ key \in inflight
        /\ \E a \in {"ok", "fail"} :
             /\ inflight' = inflight \ {key}
             /\ calls' = Append(calls, Call("settle", "save", r.name, 0, a))
             /\ files' = IF a = "ok" THEN files \cup {SavePath(r.file.name)}
                         ELSE files
             /\ pc' = "svc"
  /\ UNCHANGED <<inputs, ri, ci, localConfig, err, dirExists, events, writes,
                 outcomes, answers, run, firstRun, built, verVars, elroyVars, removeVars, envApiVars>>

\* fseCopy of processCopyResource settles; a failure fails the resource.
CopySettles ==
  /\ pc = "copy"
  /\ LET r == Current
         key == Op("copy", r.name, 0)
     IN /\ key \in inflight
        /\ \E a \in {"ok", "fail"} :
             /\ inflight' = inflight \ {key}
             /\ calls' = Append(calls, Call("settle", "copy", r.name, 0, a))
             /\ files' = IF a = "ok" THEN files \cup {CopyPath(r.file)} ELSE files
             /\ IF a = "ok" THEN pc' = "svc" /\ err' = err
                ELSE pc' = "caught" /\ err' = "CopyFailed"
  /\ UNCHANGED <<inputs, ri, ci, localConfig, dirExists, events, writes,
                 outcomes, answers, run, firstRun, built, verVars, elroyVars, removeVars, envApiVars>>

\* `if (resource.svc)`: processService starts by reading the shared
\* service template; without a service the resource is done.
SvcStep ==
  /\ pc = "svc"
  /\ LET r == Current
     IN IF r.svc /= ""
        THEN /\ events' = Append(events,
                  Ev("debug", "processSingleResource", "Processing Service", r.name))
             /\ inflight' = inflight \cup {Op("svcread", "", 0)}
             /\ calls' = Append(calls, Call("call", "svcread", r.name, 0, ""))
             /\ pc' = "svcread"
             /\ UNCHANGED outcomes
        ELSE /\ outcomes' = Append(outcomes,
                  [res |-> r.name, result |-> "ok", err |-> ""])
             /\ pc' = "settled"
             /\ UNCHANGED <<events, inflight, calls>>
  /\ UNCHANGED <<inputs, ri, ci, localConfig, err, dirExists, files, writes,
                 answers, run, firstRun, built, verVars, elroyVars, removeVars, envApiVars>>

\* processService once base-svc.mustache is read: render, then save or
\* skip.  Nothing here is caught before the resource boundary.
SvcReadSettles ==
  /\ pc = "svcread"
  /\ LET r == Current
         key == Op("svcread", "", 0)
     IN /\ key \in inflight
        /\ \E a \in {"ok", "fail"} :
             /\ Answers(key, a)
             /\ answers' = Remember(key, a)
             /\ IF a = "fail"
                THEN /\ inflight' = inflight \ {key}
                     /\ calls' = Append(calls, Call("settle", "svcread", r.name, 0, a))
                     /\ pc' = "caught"
                     /\ err' = "ReadFailed"
                     /\ UNCHANGED <<events, writes, outcomes>>
                ELSE IF SaveIsOn(options)
                THEN /\ inflight' = (inflight \ {key}) \cup {Op("svcsave", r.name, 0)}
                     /\ calls' = calls \o
                          << Call("settle", "svcread", r.name, 0, a),
                             Call("render", "svc", r.name, 0, ""),
                             Call("call", "svcsave", r.name, 0, "") >>
                     /\ writes' = Append(writes,
                          Write("svcsave", r.name, SavePath(r.svc), TRUE))
                     /\ pc' = "svcsave"
                     /\ UNCHANGED <<events, err, outcomes>>
                ELSE /\ inflight' = inflight \ {key}
                     /\ calls' = calls \o
                          << Call("settle", "svcread", r.name, 0, a),
                             Call("render", "svc", r.name, 0, "") >>
                     /\ events' = Append(events,
                          Ev("debug", "processService", "Saving is disabled", r.name))
                     /\ outcomes' = Append(outcomes,
                          [res |-> r.name, result |-> "ok", err |-> ""])
                     /\ pc' = "settled"
                     /\ UNCHANGED <<writes, err>>
  /\ UNCHANGED <<inputs, ri, ci, localConfig, dirExists, files, run, firstRun, built,
                 verVars, elroyVars, removeVars, envApiVars>>

\* saveResourceFile of processService settles.
SvcSaveSettles ==
  /\ pc = "svcsave"
  /\ LET r == Current
         key == Op("svcsave", r.name, 0)
     IN /\ key \in inflight
        /\ \E a \in {"ok", "fail"} :
             /\ inflight' = inflight \ {key}
             /\ calls' = Append(calls, Call("settle", "svcsave", r.name, 0, a))
             /\ IF a = "ok"
                THEN /\ files' = files \cup {SavePath(r.svc)}
                     /\ outcomes' = Append(outcomes,
                          [res |-> r.name, result |-> "ok", err |-> ""])
                     /\ pc' = "settled"
                     /\ err' = err
                ELSE /\ pc' = "caught"
                     /\ err' = "SaveFailed"
                     /\ UNCHANGED <<files, outcomes>>
  /\ UNCHANGED <<inputs, ri, ci, localConfig, dirExists, events, writes,
                 answers, run, firstRun, built, verVars, elroyVars, removeVars, envApiVars>>

\* The .catch of processSingleResource.
CatchStep ==
  /\ pc = "caught"
  /\ LET r == Current
     IN /\ outcomes' = Append(outcomes,
             [res |-> r.name, result |-> "failed", err |-> err])
        /\ IF CatchDecision(clusterDef) = "warn"
           THEN /\ events' = Append(events,
                     Ev("warn", "processSingleResource", err, r.name))
                /\ pc' = "settled"
           ELSE /\ pc' = "rejected"
                /\ UNCHANGED events
  /\ UNCHANGED <<inputs, ri, ci, localConfig, err, inflight, dirExists, files,
                 calls, writes, answers, run, firstRun, built, verVars, elroyVars, removeVars, envApiVars>>

\* The promise of processSingleResource has fulfilled: process() goes on
\* with the next key, or returns.
ResourceSettled ==
  /\ pc = "settled"
  /\ IF options.resource = "" /\ NextIndex(ri) <= Len(clusterDef.resources)
     THEN pc' = "resource" /\ ri' = NextIndex(ri)
     ELSE pc' = "fulfilled" /\ ri' = ri
  /\ UNCHANGED <<inputs, ci, localConfig, err, inflight, dirExists, files,
                 events, calls, writes, outcomes, answers, run, firstRun, built,
                 verVars, elroyVars, removeVars, envApiVars>>

\* Some write of the run failed.
WriteFailed ==
  \E k \in 1..Len(calls) :
    /\ calls[k].ev = "settle"
    /\ calls[k].kind \in {"copy", "save", "svcsave"}
    /\ calls[k].out = "fail"

\* A second Generator is constructed for the same cluster with the other
\* save flag, and process() is called on it: the collaborators answer as
\* before and the output directory is as the first run left it.
Rerun ==
  /\ run = 1
  /\ pc \in {"fulfilled", "rejected"}
  /\ inflight = {}
  /\ firstRun' = [save |-> options.save, pc |-> pc, events |-> events,
                  outcomes |-> outcomes, writeFailed |-> WriteFailed,
                  built |-> built]
  /\ built' = << >>
  /\ run' = 2
  /\ options' = [options EXCEPT !.save = ~@]
  /\ pc' = "init"
  /\ ri' = 0
  /\ ci' = 0
  /\ localConfig' = NoConfig
  /\ err' = ""
  /\ events' = << >>
  /\ calls' = << >>
  /\ writes' = << >>
  /\ outcomes' = << >>
  /\ UNCHANGED <<clusterDef, configPlugin, launchDarkly, inflight, dirExists,
                 files, answers, verVars, elroyVars, removeVars, envApiVars>>

Next ==
  \/ ProcessCall
  \/ ExistsSettles
  \/ MkdirsSettles
  \/ ProcessSingleResource
  \/ ContainerStep
  \/ FetchSettles
  \/ ImageStep
  \/ FlagSettles
  \/ VerifyStep
  \/ FileStep
  \/ ReadSettles
  \/ SaveSettles
  \/ CopySettles
  \/ SvcStep
  \/ SvcReadSettles
  \/ SvcSaveSettles
  \/ CatchStep
  \/ ResourceSettled

\* One call of process() on a freshly constructed Generator.
Spec == Init /\ [][Next]_vars

\* A saving run on a cluster whose output directory is missing, followed
\* by a dry run of the same cluster.
InitDry == Init /\ options.save = TRUE /\ dirExists = FALSE

NextDry == Next \/ Rerun

SpecDry == InitDry /\ [][NextDry]_vars

\* --------------------------------------- the commit verifier on its own
\* Characters that the expression of the verifier tells apart: the two
\* separators, hex digits (one in upper case) and a letter that is none.
VerifyChars == {":", "-", "a", "b", "A", "w"}

Strings(n) == UNION {[1..k -> VerifyChars] : k \in 0..n}

\* Second property of the configurations enumerated (<<>>: no image).
OtherImages == {<< >>, ImgA, ImgB, <<"i", ":", "b", "-", "A">>}

VerifyCommitIds == {<< >>, <<"a">>, <<"b">>, <<"A">>, <<"w">>, <<"a", "b">>}

InitVerify ==
  /\ clusterDef = [nil |-> TRUE, resources |-> << >>, allowFailure |-> FALSE,
                   configuration |-> DefaultConfiguration]
  /\ options = [save |-> FALSE, resource |-> "", commitId |-> << >>]
  /\ configPlugin = FALSE
  /\ launchDarkly = FALSE
  /\ pc = "init"
  /\ ri = 0
  /\ ci = 0
  /\ localConfig = NoConfig
  /\ err = ""
  /\ inflight = {}
  /\ dirExists = FALSE
  /\ files = {}
  /\ events = << >>
  /\ calls = << >>
  /\ writes = << >>
  /\ outcomes = << >>
  /\ answers = {}
  /\ run = 1
  /\ firstRun = NoRun
  /\ built = << >>
  /\ vImages \in {<<s>> : s \in Strings(MaxImgLen)}
                   \cup {<<s, t>> : s \in Strings(MaxImgLen), t \in OtherImages}
  /\ vCommitId \in VerifyCommitIds
  /\ vResult = [done |-> FALSE, throws |-> FALSE, shas |-> << >>]
  /\ ElroyIdle
  /\ RemoveIdle
  /\ EnvApiIdle

\* Generator._verifyImagesForCommitId(localConfig, commitId) is called on
\* a configuration whose properties carry the images vImages.
VerifyCall ==
  /\ ~vResult.done
  /\ LET v == verifyImagesForCommitId(vImages, vCommitId)
     IN vResult' = [done |-> TRUE, throws |-> v.throws, shas |-> v.shas]
  /\ UNCHANGED <<genVars, vImages, vCommitId, elroyVars, removeVars, envApiVars>>

NextVerify == VerifyCall

SpecVerify == InitVerify /\ [][NextVerify]_vars


\* ---------------------------------------------------------- ElroySync
\* Status codes the inventory service answers a request with; NoResponse
\* is a failure without a response (the connection failed).
NoResponse == 0

Statuses == {NoResponse, 200, 404, 500, 502, 503}

\* request-promise fulfils on a 2xx status and rejects otherwise.
Succeeds(status) == status >= 200 /\ status < 300

\* The rejection of a request: `reason.response` with its statusCode and
\* request.method, absent when there was no response.
Reason(method, status) == [method |-> method, status |-> status, typeError |-> FALSE]

\* ElroySync.isRequestError.
isRequestError(reason) == reason.status /= NoResponse

\* ElroySync.isGetNotFound.
isGetNotFoundAnyMethod(reason) == reason.status = 404

isGetNotFound(reason) == reason.method = "GET" /\ reason.status = 404

\* The .catch handler of SaveToElroy for a failure of retrieveCluster or
\* updateCluster: create the cluster after a GET that found none, try the
\* save again, or reject.  Reading statusCode of a reason without response
\* throws a TypeError.
SaveCatch(reason, count) ==
  LET rc == IF count = Undefined \/ count = 0 THEN 0 ELSE count
  IN IF isRequestError(reason) /\ isGetNotFound(reason)
     THEN [next |-> "post", retryCount |-> count, reason |-> NoReason]
     ELSE IF ~isRequestError(reason)
     THEN [next |-> "rejected", retryCount |-> rc,
           reason |-> [reason EXCEPT !.typeError = TRUE]]
     ELSE IF reason.status >= 502 /\ rc < 3
     THEN [next |-> "delay", retryCount |-> rc + 1, reason |-> NoReason]
     ELSE [next |-> "rejected", retryCount |-> rc, reason |-> reason]

\* The generator, the verifier and the inventory sync at rest, with the
\* retryCount a caller hands to SaveToElroy.
InitElroy ==
  /\ clusterDef = [nil |-> TRUE, resources |-> << >>, allowFailure |-> FALSE,
                   configuration |-> DefaultConfiguration]
  /\ options = [save |-> FALSE, resource |-> "", commitId |-> << >>]
  /\ configPlugin = FALSE
  /\ launchDarkly = FALSE
  /\ pc = "init"
  /\ ri = 0
  /\ ci = 0
  /\ localConfig = NoConfig
  /\ err = ""
  /\ inflight = {}
  /\ dirExists = FALSE
  /\ files = {}
  /\ events = << >>
  /\ calls = << >>
  /\ writes = << >>
  /\ outcomes = << >>
  /\ answers = {}
  /\ run = 1
  /\ firstRun = NoRun
  /\ built = << >>
  /\ vImages = << >>
  /\ vCommitId = << >>
  /\ vResult = [done |-> FALSE, throws |-> FALSE, shas |-> << >>]
  /\ ePc = "idle"
  /\ retryCount \in {Undefined, 0}
  /\ eRequests = << >>
  /\ eReason = NoReason
  /\ RemoveIdle
  /\ EnvApiIdle

\* SaveToElroy is called, by the caller or by itself after the delay:
\* populateCluster, then retrieveCluster issues its GET.
SaveToElroy ==
  /\ ePc \in {"idle", "delay"}
  /\ ePc' = "get"
  /\ UNCHANGED <<genVars, verVars, removeVars, envApiVars, retryCount, eRequests, eReason>>

\* What follows the settling of retrieveCluster or updateCluster with the
\* status: the next request, the fulfilment, or the catch handler.
RequestSettled(method, status) ==
  IF Succeeds(status)
  THEN /\ ePc' = IF method = "GET" THEN "put" ELSE "fulfilled"
       /\ UNCHANGED <<retryCount, eReason>>
  ELSE LET c == SaveCatch(Reason(method, status), retryCount)
       IN /\ ePc' = c.next
          /\ retryCount' = c.retryCount
          /\ eReason' = c.reason

\* The GET of retrieveCluster settles; on success updateCluster issues
\* its PUT.
RetrieveSettles ==
  /\ ePc = "get"
  /\ \E status \in Statuses :
       /\ eRequests' = Append(eRequests, [method |-> "GET", status |-> status])
       /\ RequestSettled("GET", status)
  /\ UNCHANGED <<genVars, verVars, removeVars, envApiVars>>

\* The PUT of updateCluster settles.
UpdateSettles ==
  /\ ePc = "put"
  /\ \E status \in Statuses :
       /\ eRequests' = Append(eRequests, [method |-> "PUT", status |-> status])
       /\ RequestSettled("PUT", status)
  /\ UNCHANGED <<genVars, verVars, removeVars, envApiVars>>

\* The POST of createCluster settles: it was returned from inside the
\* catch handler, so its failure is the rejection of SaveToElroy.
CreateSettles ==
  /\ ePc = "post"
  /\ \E status \in Statuses :
       /\ eRequests' = Append(eRequests, [method |-> "POST", status |-> status])
       /\ IF Succeeds(status)
          THEN ePc' = "fulfilled" /\ eReason' = eReason
          ELSE ePc' = "rejected" /\ eReason' = Reason("POST", status)
  /\ UNCHANGED <<genVars, verVars, removeVars, envApiVars, retryCount>>

NextElroy ==
  \/ SaveToElroy
  \/ RetrieveSettles
  \/ UpdateSettles
  \/ CreateSettles

\* One call of ElroySync.SaveToElroy.
SpecElroy == InitElroy /\ [][NextElroy]_vars


\* ------------------------------------------------ generator at rest
\* No Generator is at work: the state the other components start from.
GeneratorAtRest ==
  /\ clusterDef = [nil |-> TRUE, resources |-> << >>, allowFailure |-> FALSE,
                   configuration |-> DefaultConfiguration]
  /\ options = [save |-> FALSE, resource |-> "", commitId |-> << >>]
  /\ configPlugin = FALSE
  /\ launchDarkly = FALSE
  /\ pc = "init"
  /\ ri = 0
  /\ ci = 0
  /\ localConfig = NoConfig
  /\ err = ""
  /\ inflight = {}
  /\ dirExists = FALSE
  /\ files = {}
  /\ events = << >>
  /\ calls = << >>
  /\ writes = << >>
  /\ outcomes = << >>
  /\ answers = {}
  /\ run = 1
  /\ firstRun = NoRun
  /\ built = << >>
  /\ vImages = << >>
  /\ vCommitId = << >>
  /\ vResult = [done |-> FALSE, throws |-> FALSE, shas |-> << >>]

\* ------------------------------ ElroySync.RemoveDeploymentEnvironments
\* `const MaxCount = 500`.
MaxCount == 500

\* The margin of `clusterDefs.length < res.count - 50`.
CountMargin == 50

\* Longest list of environments Elroy answers with.
MaxItems == 2

\* Names of clusters and of deployment environments.
EnvNamesKnown == {"a", "b", "c"}

\* A deployment environment as Elroy returns it.
DeployEnvs == [name : EnvNamesKnown, active : BOOLEAN]

\* The lists of at most n environments.
ItemLists(n) == UNION {[1..k -> DeployEnvs] : k \in 0..n}

\* The counts Elroy reports with a list: small ones, and counts around
\* the two limits.
Counts ==
  (0..MaxItems) \cup {CountMargin + 2, CountMargin + 3, MaxCount, MaxCount + 1}

\* `if (res.count > MaxCount)`.
TooManyNever(res) == FALSE

TooMany(res) == res.count > MaxCount

\* Cluster definitions: the names of those that may have an environment
\* in the list, and how many others there are.
ClusterDefs == [names : SUBSET {"a", "b"}, others : {0, MaxCount - CountMargin}]

\* clusterDefs.length.
DefsLength(defs) == Cardinality(defs.names) + defs.others

\* `if (clusterDefs.length < res.count - 50)`.
TooFewDefinitions(defs, res) == DefsLength(defs) < res.count - CountMargin

\* `!found && deployEnv.active`, found being whether a cluster definition
\* has the name of the environment.
ShouldDeactivateInactiveToo(defs, deployEnv) == deployEnv.name \notin defs.names

ShouldDeactivate(defs, deployEnv) ==
  deployEnv.name \notin defs.names /\ deployEnv.active

\* The updates of the forEach over res.items: the environments to
\* deactivate, in the order returned, with active set to false.
Deactivations(defs, items) ==
  LET chosen == SelectSeq(items, LAMBDA e : ShouldDeactivate(defs, e))
  IN [k \in 1..Len(chosen) |-> [chosen[k] EXCEPT !.active = FALSE]]

\* RemoveDeploymentEnvironments is about to be called with the cluster
\* definitions dDefs; dList is what Elroy will answer the list with.
InitRemove ==
  /\ GeneratorAtRest
  /\ ElroyIdle
  /\ EnvApiIdle
  /\ dPc = "idle"
  /\ dDefs \in ClusterDefs
  /\ dList \in
       {l \in [failed : BOOLEAN, count : Counts, items : ItemLists(MaxItems)] :
          l.count >= Len(l.items)}
  /\ dUpdates = << >>
  /\ dInflight = {}

\* RemoveDeploymentEnvironments is called: the list request is issued.
RemoveDeploymentEnvironments ==
  /\ dPc = "idle"
  /\ dPc' = "list"
  /\ UNCHANGED <<genVars, verVars, elroyVars, envApiVars, dDefs, dList, dUpdates,
                 dInflight>>

\* The list request settles: a failure is rethrown; past the two guards
\* one update is issued for every environment to deactivate and
\* Promise.all waits for them.
ListSettles ==
  /\ dPc = "list"
  /\ IF dList.failed
     THEN dPc' = "rejected" /\ UNCHANGED <<dUpdates, dInflight>>
     ELSE IF TooMany(dList) \/ TooFewDefinitions(dDefs, dList)
     THEN dPc' = "fulfilled" /\ UNCHANGED <<dUpdates, dInflight>>
     ELSE LET toDeactivate == Deactivations(dDefs, dList.items)
          IN /\ dUpdates' = toDeactivate
             /\ dInflight' = 1..Len(toDeactivate)
             /\ dPc' = IF toDeactivate = << >> THEN "fulfilled" ELSE "all"
  /\ UNCHANGED <<genVars, verVars, elroyVars, envApiVars, dDefs, dList>>

\* One of the updates settles; Promise.all rejects with the first failure
\* and fulfils when the last update has succeeded.
DeactivationSettles ==
  /\ dInflight /= {}
  /\ \E k \in dInflight, ok \in BOOLEAN :
       /\ dInflight' = dInflight \ {k}
       /\ dPc' = IF dPc /= "all" THEN dPc
                 ELSE IF ~ok THEN "rejected"
                 ELSE IF dInflight = {k} THEN "fulfilled"
                 ELSE "all"
  /\ UNCHANGED <<genVars, verVars, elroyVars, envApiVars, dDefs, dList, dUpdates>>

NextRemove ==
  \/ RemoveDeploymentEnvironments
  \/ ListSettles
  \/ DeactivationSettles

\* One call of ElroySync.RemoveDeploymentEnvironments.
SpecRemove == InitRemove /\ [][NextRemove]_vars


\* ------------------------------------------------- EnvApiClient.fetch
\* `const envAPIV4 = "v4"` and `const envAPIV3 = "v3"`.
envAPIV4 == "v4"

envAPIV3 == "v3"

\* The `values` of a v3 response, a map from names to values in key
\* order, and of a v4 response, a list of name/value entries.
ValuesV3 == << <<"ONE", <<"1">> >>, <<"THREE", <<"3">> >> >>

ValuesV4 == << EnvVar("ONE", <<"1">>), EnvVar("THREE", <<"3">>) >>

\* resp.body.values of the response in hand, <<>> when it has none.
BodyValues(version, resp) ==
  IF ~resp.hasValues THEN << >>
  ELSE IF version = envAPIV4 THEN ValuesV4 ELSE ValuesV3

\* EnvApiClient.convertEnvResult: one {name, value} entry per key.
convertEnvResult(values) ==
  [k \in 1..Len(values) |-> EnvVar(values[k][1], values[k][2])]

\* resultOK of parseResponse.
ResultOK(version, resp) ==
  [state |-> "fulfilled", defined |-> TRUE,
   env |-> IF version = envAPIV4 THEN BodyValues(version, resp)
           ELSE convertEnvResult(BodyValues(version, resp)),
   message |-> ""]

\* fetch fulfils with undefined.
ResultUndefined ==
  [state |-> "fulfilled", defined |-> FALSE, env |-> << >>, message |-> ""]

\* `throw new Error(errMsg)` of the catch of fetch.
ResultError(message) ==
  [state |-> "rejected", defined |-> TRUE, env |-> << >>, message |-> message]

\* What a request settles with: a failure, without a status or with the
\* status of an error response, or a response with a status and a body
\* that may carry values.
Responses ==
  [failed : {TRUE}, statusCode : {0, 404}, hasValues : {FALSE}]
    \cup [failed : {FALSE}, statusCode : {200, 204, 206, 404, 500}, hasValues : BOOLEAN]

\* `err.message || err` of a failed request.
FailureMessage(resp) ==
  IF resp.statusCode = 0 THEN "request failed" ELSE "Unable to fetch"

\* fetch is about to be called on a client.
InitEnvApi ==
  /\ GeneratorAtRest
  /\ ElroyIdle
  /\ RemoveIdle
  /\ xPc = "idle"
  /\ xClient \in [events : BOOLEAN, launchDarkly : BOOLEAN, annotated : BOOLEAN,
                  named : BOOLEAN, clusterIsString : BOOLEAN]
  /\ xVersion = ""
  /\ xRequests = << >>
  /\ xResponse = NoResponseYet
  /\ xFlag = ""
  /\ xMetrics = << >>
  /\ xResult = Pending

\* The .catch of fetch: one failure metric when there is an events sink,
\* then the rejection with an Error of the message.
FetchCatch(message) ==
  /\ xMetrics' = IF xClient.events
                 THEN Append(xMetrics, "Failure getting envs through envapi")
                 ELSE xMetrics
  /\ xResult' = ResultError(message)
  /\ xPc' = "rejected"

\* EnvApiClient.getResourceName: the resource-name annotation when the
\* service has one, else its resourceName.
getResourceName == IF xClient.named THEN "annotated-resource" ELSE "resourceName"

\* callv4Api or callv3Api, by the version determined, for the service the
\* version names it by.
CallApi(version) ==
  /\ xVersion' = version
  /\ xRequests' = Append(xRequests,
                         [endpoint |-> version,
                          service |-> IF version = envAPIV4 THEN getResourceName
                                      ELSE "annotated-service"])
  /\ xPc' = "request"

\* fetch is called: a service without annotation is skipped, a cluster
\* given as a string is thrown at, and determineApiVersionCall answers v3
\* at once without a flag client or asks the flag.
Fetch ==
  /\ xPc = "idle"
  /\ IF ~xClient.annotated
     THEN /\ xPc' = "fulfilled"
          /\ xResult' = ResultUndefined
          /\ UNCHANGED <<xVersion, xRequests, xMetrics>>
     ELSE IF xClient.clusterIsString
     THEN /\ FetchCatch("Invalid argument for 'cluster'")
          /\ UNCHANGED <<xVersion, xRequests>>
     ELSE IF ~xClient.launchDarkly
     THEN /\ CallApi(envAPIV3)
          /\ UNCHANGED <<xMetrics, xResult>>
     ELSE /\ xPc' = "toggle94"
          /\ UNCHANGED <<xVersion, xRequests, xMetrics, xResult>>
  /\ UNCHANGED <<genVars, verVars, elroyVars, removeVars, xClient, xResponse,
                 xFlag>>

\* The .then of a toggle: `this.events.emitMetric(...)` is called without
\* looking whether there is a sink.
FlagMetric(isEnabled) == IF isEnabled THEN "feature.enabled" ELSE "feature.disabled"

\* toggle("kit-deploymentizer-94-api-v4-call") settles.
VersionFlagSettles ==
  /\ xPc = "toggle94"
  /\ \E a \in {"true", "false", "reject"} :
       /\ xFlag' = a
       /\ IF a = "reject"
          THEN FetchCatch("toggle failed") /\ UNCHANGED <<xVersion, xRequests>>
          ELSE IF ~xClient.events
          THEN FetchCatch("TypeError") /\ UNCHANGED <<xVersion, xRequests>>
          ELSE /\ xMetrics' = Append(xMetrics, FlagMetric(a = "true"))
               /\ CallApi(IF a = "true" THEN envAPIV4 ELSE envAPIV3)
               /\ UNCHANGED xResult
  /\ UNCHANGED <<genVars, verVars, elroyVars, removeVars, xClient, xResponse>>

\* The metrics parseResponse emits before it settles or asks the flag.
ParseMetrics(resp) ==
  (IF xClient.events THEN << "envapi.call" >> ELSE << >>)
    \o (IF resp.statusCode = 206 /\ xClient.events
        THEN << "Partial Content" >> ELSE << >>)
    \o (IF resp.statusCode = 206 /\ xClient.events /\ ~xClient.launchDarkly
        THEN << "LaunchDarkly undefined" >> ELSE << >>)

\* What parseResponse hands to fetch for a status that is neither 200 nor
\* 206: `Promise.reject(resultErr)` is not returned, so undefined.
ParseOtherStatus(version, resp) == ResultUndefined

\* The request settles: a failure goes to the catch, a response through
\* parseResponse.
RequestSettles ==
  /\ xPc = "request"
  /\ \E resp \in Responses :
       /\ xResponse' = resp
       /\ IF resp.failed
          THEN FetchCatch(FailureMessage(resp))
          ELSE IF resp.statusCode = 200
          THEN /\ xMetrics' = xMetrics \o ParseMetrics(resp)
               /\ xResult' = ResultOK(xVersion, resp)
               /\ xPc' = "fulfilled"
          ELSE IF resp.statusCode = 206
          THEN /\ xMetrics' = xMetrics \o ParseMetrics(resp)
               /\ IF ~xClient.launchDarkly
                  THEN xResult' = ResultOK(xVersion, resp) /\ xPc' = "fulfilled"
                  ELSE xResult' = xResult /\ xPc' = "toggle90"
          ELSE LET r == ParseOtherStatus(xVersion, resp)
               IN IF r.state = "rejected"
                  THEN FetchCatch(r.message)
                  ELSE /\ xMetrics' = xMetrics \o ParseMetrics(resp)
                       /\ xResult' = r
                       /\ xPc' = "fulfilled"
  /\ UNCHANGED <<genVars, verVars, elroyVars, removeVars, xClient, xVersion,
                 xRequests, xFlag>>

\* toggle("kit-deploymentizer-90-fail-deploy-envs") settles for a partial
\* content: enabled, the deployment is rejected.
FailDeployFlagSettles ==
  /\ xPc = "toggle90"
  /\ \E a \in {"true", "false", "reject"} :
       IF a = "reject"
       THEN FetchCatch("toggle failed")
       ELSE IF ~xClient.events
       THEN FetchCatch("TypeError")
       ELSE IF a = "true"
       THEN /\ xMetrics' = Append(Append(xMetrics, FlagMetric(TRUE)),
                                  "Failure getting envs through envapi")
            /\ xResult' = ResultError("Success with partial content")
            /\ xPc' = "rejected"
       ELSE /\ xMetrics' = Append(xMetrics, FlagMetric(FALSE))
            /\ xResult' = ResultOK(xVersion, xResponse)
            /\ xPc' = "fulfilled"
  /\ UNCHANGED <<genVars, verVars, elroyVars, removeVars, xClient, xVersion,
                 xRequests, xResponse, xFlag>>

NextEnvApi ==
  \/ Fetch
  \/ VersionFlagSettles
  \/ RequestSettles
  \/ FailDeployFlagSettles

\* One call of EnvApiClient.fetch.
SpecEnvApi == InitEnvApi /\ [][NextEnvApi]_vars


\* ================================================================ claims
\* Names of the resources whose processSingleResource was entered, in order.
IsBegin(c) == c.ev = "begin"

Begun == [k \in 1..Len(SelectSeq(calls, IsBegin)) |-> SelectSeq(calls, IsBegin)[k].res]

\* Names of the resources process() is to go through: the requested one if
\* it is in the map, otherwise all keys in declaration order.
ToVisit ==
  IF clusterDef.nil THEN << >>
  ELSE IF options.resource /= ""
  THEN IF IndexOf(clusterDef.resources, options.resource) = 0 THEN << >>
       ELSE << options.resource >>
  ELSE [k \in 1..Len(clusterDef.resources) |-> clusterDef.resources[k].name]

IsPrefix(a, b) == Len(a) <= Len(b) /\ \A k \in 1..Len(a) : a[k] = b[k]

\* C1: a resource that fails with allowFailure() true leaves a warning of
\* the resource boundary, never rejects process(), and every resource of the
\* iteration has been processed when process() fulfils; with allowFailure()
\* false the failed resource is the last one entered and process() rejects
\* with its error.
C1_FailureIsolation ==
  /\ clusterDef.allowFailure =>
       /\ pc /= "rejected"
       /\ \A k \in 1..Len(outcomes) :
            outcomes[k].result = "failed" =>
              \E e \in 1..Len(events) :
                events[e] = Ev("warn", "processSingleResource", outcomes[k].err,
                               outcomes[k].res)
       /\ pc = "fulfilled" =>
            /\ Begun = ToVisit
            /\ Len(outcomes) = Len(ToVisit)
            /\ \A k \in 1..Len(outcomes) : outcomes[k].res = ToVisit[k]
  /\ ~clusterDef.allowFailure =>
       \A k \in 1..Len(outcomes) :
         outcomes[k].result = "failed" =>
           /\ k = Len(outcomes)
           /\ pc = "rejected"
           /\ err = outcomes[k].err
           /\ Len(Begun) = k
           /\ inflight \subseteq {Op("mkdirs", "", 0)}

\* C1 witness: with allowFailure() true a resource failed, the next one was
\* processed to the end and process() fulfilled.
C1_Witness ==
  /\ clusterDef.allowFailure
  /\ pc = "fulfilled"
  /\ Len(outcomes) = 2
  /\ outcomes[1].result = "failed"
  /\ outcomes[2].result = "ok"

\* Position of a resource name in the declaration order of the cluster.
Rank(name) == IndexOf(clusterDef.resources, name)

\* C2: resources are handled one at a time in declaration order and the
\* containers of a resource one at a time in container order: at most one
\* awaited call is in flight, every call issued is settled before anything
\* else is begun, issued or rendered, and the entries of the history never
\* go back to an earlier resource or to an earlier container.
C2_Sequential ==
  /\ Cardinality(inflight \ {Op("mkdirs", "", 0)}) <= 1
  /\ \A p \in 1..Len(calls) :
       (calls[p].ev = "call" /\ calls[p].kind /= "mkdirs") =>
          \/ /\ p = Len(calls)
             /\ \E o \in inflight : o.kind = calls[p].kind
          \/ /\ p < Len(calls)
             /\ calls[p + 1].ev = "settle"
             /\ calls[p + 1].kind = calls[p].kind
             /\ calls[p + 1].res = calls[p].res
             /\ calls[p + 1].con = calls[p].con
  /\ \A p \in 1..(Len(calls) - 1) :
       (calls[p].res /= "" /\ calls[p + 1].res /= "") =>
          /\ Rank(calls[p].res) <= Rank(calls[p + 1].res)
          /\ calls[p + 1].ev = "begin" =>
               Rank(calls[p].res) < Rank(calls[p + 1].res)
          /\ (calls[p].res = calls[p + 1].res /\ calls[p + 1].con > 0) =>
               \/ calls[p].ev = "begin"
               \/ (calls[p].con > 0 /\ calls[p].con <= calls[p + 1].con)

\* C2 witness: two resources were gone through, one of them with a second
\* container whose flag query was issued.
C2_Witness ==
  /\ pc = "fulfilled"
  /\ Len(Begun) = 2
  /\ \E p \in 1..Len(calls) : calls[p].kind = "flag" /\ calls[p].con = 2
  /\ \E p \in 1..Len(calls) : calls[p].kind = "save"


HasCall(ev, kind, res, con) ==
  \E p \in 1..Len(calls) :
    calls[p].ev = ev /\ calls[p].kind = kind /\ calls[p].res = res
      /\ calls[p].con = con

Settled(kind, res, con, out) ==
  \E p \in 1..Len(calls) :
    calls[p] = Call("settle", kind, res, con, out)

ResourceNamed(name) == clusterDef.resources[IndexOf(clusterDef.resources, name)]

IsVerified(e) == e = Ev("info", "_verifyImagesForCommitId", "Verified images", "")

IsOk(o) == o.result = "ok"

\* C3: with save = false no copy or save is ever issued and no file
\* appears, while every resource that went through had its configuration
\* fetched, its images resolved, its commit verified and its templates
\* rendered.
C3_DryRunWritesNothing ==
  options.save = FALSE =>
    /\ writes = << >>
    /\ files = {}
    /\ \A o \in inflight : o.kind \notin {"copy", "save", "svcsave"}
    /\ \A p \in 1..Len(calls) : calls[p].kind \notin {"copy", "save", "svcsave"}
    /\ \A k \in 1..Len(outcomes) :
         outcomes[k].result = "ok" =>
           LET r == ResourceNamed(outcomes[k].res)
           IN /\ \A j \in 1..Len(Containers(r)) :
                   /\ configPlugin => Settled("fetch", r.name, j, "ok")
                   /\ (Containers(r)[j].container.image = << >>
                         /\ Containers(r)[j].container.image_tag /= << >>)
                        => HasCall("settle", "flag", r.name, j)
              /\ options.commitId /= << >> =>
                   Len(SelectSeq(events, IsVerified))
                     >= Len(SelectSeq(SubSeq(outcomes, 1, k), IsOk))
              /\ (r.file.ext = ".mustache" /\ Settled("read", r.name, 0, "ok"))
                   => HasCall("render", "file", r.name, 0)
              /\ r.svc /= "" => HasCall("render", "svc", r.name, 0)

\* C3 witness: a dry run went through a resource, rendering its template
\* and its service.
C3_Witness ==
  /\ options.save = FALSE
  /\ pc = "fulfilled"
  /\ \E k \in 1..Len(outcomes) :
       /\ outcomes[k].result = "ok"
       /\ HasCall("render", "file", outcomes[k].res, 0)
       /\ HasCall("render", "svc", outcomes[k].res, 0)

IsBuildEvent(e) ==
  e.by \in {"_createLocalConfiguration", "setImage", "setImageSHA",
            "setImageDefault", "_verifyImagesForCommitId"}

\* C4: a dry run of a cluster emits the same events and metrics of the
\* merge, resolve and verify steps, and ends every resource and process()
\* itself the same way, as the saving run of the same cluster whose writes
\* all succeeded.
C4_DryRunSameBuild ==
  (run = 2 /\ pc \in {"fulfilled", "rejected"} /\ firstRun.save
     /\ ~firstRun.writeFailed) =>
    /\ options.save = FALSE
    /\ SelectSeq(events, IsBuildEvent) = SelectSeq(firstRun.events, IsBuildEvent)
    /\ outcomes = firstRun.outcomes
    /\ pc = firstRun.pc

\* C4 witness: both runs are over, the writes of the first succeeded, and
\* the runs had build events, a resource that failed and one that did not.
C4_Witness ==
  /\ run = 2
  /\ pc = "fulfilled"
  /\ firstRun.save
  /\ ~firstRun.writeFailed
  /\ files /= {}
  /\ SelectSeq(events, IsBuildEvent) /= << >>
  /\ \E k \in 1..Len(outcomes) : outcomes[k].result = "failed"
  /\ \E k \in 1..Len(outcomes) : outcomes[k].result = "ok"

\* C5: entering processSingleResource for a resource with disable === true
\* only emits the debug skip event and fulfils: nothing is built, no call
\* is issued, nothing is written; and nothing is ever issued or written for
\* a skipped resource.
C5_DisabledSkipped ==
  /\ [][(pc = "resource" /\ pc' /= "resource" /\ Current.disable = TRUE) =>
          /\ pc' = "settled"
          /\ events' = Append(events,
               Ev("debug", "processSingleResource", "disabled, skipping",
                  Current.name))
          /\ outcomes' = Append(outcomes,
               [res |-> Current.name, result |-> "skipped", err |-> ""])
          /\ calls' = Append(calls, Call("begin", "resource", Current.name, 0, ""))
          /\ UNCHANGED <<localConfig, inflight, writes, files, answers, err>>]_vars
  /\ [](\A k \in 1..Len(outcomes) :
          outcomes[k].result = "skipped" =>
            /\ ResourceNamed(outcomes[k].res).disable = TRUE
            /\ \A p \in 1..Len(calls) :
                 calls[p].res = outcomes[k].res => calls[p].ev = "begin"
            /\ \A w \in 1..Len(writes) : writes[w].res /= outcomes[k].res
            /\ \A e \in 1..Len(events) :
                 events[e].res = outcomes[k].res => events[e].sev = "debug")

\* C5 witness: process() fulfilled after skipping a disabled resource.
C5_Witness ==
  /\ pc = "fulfilled"
  /\ \E k \in 1..Len(outcomes) : outcomes[k].result = "skipped"


IsProcessWarn(e) == e.sev = "warn" /\ e.by = "process"

\* C6: a cluster without resources (resources() absent, or an empty map)
\* makes process() emit a warning, process no resource and fulfil.
C6_EmptyClusterWarns ==
  (clusterDef.nil \/ Len(clusterDef.resources) = 0) =>
    /\ pc /= "rejected"
    /\ Begun = << >>
    /\ pc = "fulfilled" => SelectSeq(events, IsProcessWarn) /= << >>

NotFoundWarned ==
  \E e \in 1..Len(events) :
    events[e] = Ev("warn", "process", "Resource requested was not found",
                   options.resource)

\* C7 as stated: a requested resource is the only one processed, a
\* requested name that is not in the map gives a warning and a fulfilled
\* process() with nothing processed, and without a requested name every
\* resource of the map has been visited exactly once when process() settles
\* (stated for Generators that have a flag client).
C7_VisitedExactlyOnce ==
  (pc \in {"fulfilled", "rejected"} /\ ~clusterDef.nil /\ launchDarkly) =>
    /\ Begun = ToVisit
    /\ (options.resource /= "" /\ ToVisit = << >>) =>
         (pc = "fulfilled" /\ NotFoundWarned)

\* C7 amended: the resources entered are always the first ones of those to
\* visit, in order and without repetition; all of them when process()
\* fulfils; when process() rejects, allowFailure() is false and the last
\* resource entered is the one that failed.  A requested name that is not
\* in the map gives a warning and a fulfilled process().
C7_VisitedInOrder ==
  /\ IsPrefix(Begun, ToVisit)
  /\ (pc = "fulfilled" /\ ~clusterDef.nil) => Begun = ToVisit
  /\ pc = "rejected" =>
       /\ ~clusterDef.allowFailure
       /\ Begun /= << >>
       /\ Len(outcomes) = Len(Begun)
       /\ outcomes[Len(outcomes)].res = Begun[Len(Begun)]
       /\ outcomes[Len(outcomes)].result = "failed"
  /\ (options.resource /= "" /\ ToVisit = << >> /\ ~clusterDef.nil) =>
       /\ pc /= "rejected"
       /\ pc = "fulfilled" => NotFoundWarned

\* C7 witness: without a requested name process() fulfilled after entering
\* both resources of the map.
C7_Witness ==
  /\ pc = "fulfilled"
  /\ options.resource = ""
  /\ Len(clusterDef.resources) = 2
  /\ Begun = ToVisit

WritesOf(name, op) == {w \in 1..Len(writes) : writes[w].res = name /\ writes[w].op = op}

\* C8: an enabled resource with a file is dispatched on the extension:
\* ".yaml" is copied under its own name and never read or rendered,
\* ".mustache" is read, rendered and the rendering saved, anything else
\* fails the resource with "Unknown file type" and nothing is written for
\* it, its service file included.  (Copy and save are issued when save is
\* true.)
C8_ExtensionDispatch ==
  /\ \A w \in 1..Len(writes) :
       LET r == ResourceNamed(writes[w].res)
       IN /\ writes[w].op = "copy" =>
               /\ r.file.ext = ".yaml"
               /\ ~writes[w].rendered
               /\ writes[w].path = [name |-> r.file.name, ext |-> ".yaml"]
          /\ writes[w].op = "save" =>
               /\ r.file.ext = ".mustache"
               /\ writes[w].rendered
               /\ HasCall("render", "file", r.name, 0)
  /\ \A e \in 1..Len(events) :
       events[e].what = "Processing Resource" =>
         LET r == ResourceNamed(events[e].res)
         IN /\ r.file.ext = ".yaml" =>
                 /\ options.save => WritesOf(r.name, "copy") /= {}
                 /\ WritesOf(r.name, "save") = {}
                 /\ ~HasCall("call", "read", r.name, 0)
                 /\ ~HasCall("render", "file", r.name, 0)
            /\ r.file.ext = ".mustache" =>
                 /\ HasCall("call", "read", r.name, 0)
                 /\ WritesOf(r.name, "copy") = {}
                 /\ Settled("read", r.name, 0, "ok") =>
                      /\ HasCall("render", "file", r.name, 0)
                      /\ options.save => WritesOf(r.name, "save") /= {}
            /\ r.file.ext \notin {".yaml", ".mustache"} =>
                 /\ \A w \in 1..Len(writes) : writes[w].res /= r.name
                 /\ ~HasCall("call", "svcread", r.name, 0)
                 /\ \/ pc = "caught" /\ err = "UnknownFileType"
                         /\ Current.name = r.name
                    \/ \E k \in 1..Len(outcomes) :
                         outcomes[k] = [res |-> r.name, result |-> "failed",
                                        err |-> "UnknownFileType"]

\* C8 witness: in one saving run a resource failed on its file type and a
\* YAML resource was copied.
C8_Witness ==
  /\ pc = "fulfilled"
  /\ \E k \in 1..Len(outcomes) : outcomes[k].err = "UnknownFileType"
  /\ \E w \in 1..Len(writes) : writes[w].op = "copy"

\* An image in which a ':' is followed, at least one character later, by a
\* '-' and a hex digit.
CarriesSha(s) ==
  \E i, j \in 1..Len(s) :
    /\ s[i] = ":"
    /\ j >= i + 2
    /\ s[j] = "-"
    /\ j < Len(s)
    /\ s[j + 1] \in HexChars

TokenAt(k) == imageSHARegex(vImages[k])

\* C9: the verifier throws exactly when the commit id is truthy, some image
\* carries a token and no token equals the commit id; the tokens listed in
\* the error are those of all the images that carry one.
C9_VerifierThrowsExactly ==
  vResult.done =>
    /\ vResult.throws <=>
         /\ vCommitId /= << >>
         /\ \E k \in 1..Len(vImages) : CarriesSha(vImages[k])
         /\ \A k \in 1..Len(vImages) : TokenAt(k) /= vCommitId
    /\ vResult.throws =>
         /\ Len(vResult.shas) =
              Cardinality({k \in 1..Len(vImages) : CarriesSha(vImages[k])})
         /\ \A k \in 1..Len(vImages) :
              CarriesSha(vImages[k]) => SeqIncludes(vResult.shas, TokenAt(k))
         /\ \A n \in 1..Len(vResult.shas) :
              \E k \in 1..Len(vImages) :
                CarriesSha(vImages[k]) /\ vResult.shas[n] = TokenAt(k)

\* C9 witness: the verifier threw on a configuration with two tokens.
C9_Witness ==
  /\ vResult.done
  /\ vResult.throws
  /\ Len(vResult.shas) = 2

\* C10 as stated: every image whose token differs from the commit id makes
\* the verifier throw, every image whose token equals it makes it succeed.
C10_EveryImageDecides ==
  (vResult.done /\ vCommitId /= << >>) =>
    \A k \in 1..Len(vImages) :
      CarriesSha(vImages[k]) =>
        /\ TokenAt(k) /= vCommitId => vResult.throws
        /\ TokenAt(k) = vCommitId => ~vResult.throws

\* C10 amended: the verifier succeeds as soon as one image's token equals
\* the commit id, whatever the other images carry, and throws when images
\* carry tokens and all of them differ from the commit id.
C10_OneMatchSuffices ==
  (vResult.done /\ vCommitId /= << >>) =>
    /\ (\E k \in 1..Len(vImages) :
          CarriesSha(vImages[k]) /\ TokenAt(k) = vCommitId) => ~vResult.throws
    /\ ((\E k \in 1..Len(vImages) : CarriesSha(vImages[k]))
          /\ \A k \in 1..Len(vImages) :
               CarriesSha(vImages[k]) => TokenAt(k) /= vCommitId) => vResult.throws

\* C10 witness: the verifier succeeded on a configuration where one image
\* carries the commit id and another carries a different token.
C10_Witness ==
  /\ vResult.done
  /\ ~vResult.throws
  /\ vCommitId /= << >>
  /\ \E k, l \in 1..Len(vImages) :
       /\ CarriesSha(vImages[k]) /\ TokenAt(k) = vCommitId
       /\ CarriesSha(vImages[l]) /\ TokenAt(l) /= vCommitId

\* ------------------------------------------------- image resolution
\* The container loop of _createLocalConfiguration has finished without an
\* error for the resource in hand: localConfig holds its containers.
Built ==
  pc \in {"verify", "file", "read", "save", "copy", "svc", "svcread", "svcsave"}

\* The artifact of the k-th container of a resource as declared.
Declared(r, k) == Containers(r)[k].container

\* The branch a container's image is looked up for: the container's own
\* branch, else the resource's, else the cluster's default branch.
EffectiveBranch(r, k) ==
  IF Declared(r, k).branch /= "" THEN Declared(r, k).branch
  ELSE IF r.self.branch /= "" THEN r.self.branch
  ELSE defaultBranch

\* imageResourceDefs has an entry for the container's tag and branch.
HasLookup(r, k) ==
  /\ Declared(r, k).image_tag \in DOMAIN imageResourceDefs
  /\ EffectiveBranch(r, k) \in DOMAIN imageResourceDefs[Declared(r, k).image_tag]

Lookup(r, k) == imageResourceDefs[Declared(r, k).image_tag][EffectiveBranch(r, k)]

\* The image localConfig holds for the k-th container of the resource.
ImageOf(r, k) == Entry(localConfig, Containers(r)[k].name).image

\* What the flag answered for the k-th container of the resource.
FlagAnswered(r, k, a) == [key |-> Op("flag", r.name, k), val |-> a] \in answers

\* The branch-default strategy resolved the k-th container: the flag
\* answered false, or it answered true and no commit id was supplied.
BranchDefaultChosen(r, k) ==
  \/ FlagAnswered(r, k, "false")
  \/ FlagAnswered(r, k, "true") /\ options.commitId = << >>

\* A resource of one container that has an image tag and no image.
SingleUnresolved(r) ==
  /\ Len(Containers(r)) = 1
  /\ Declared(r, 1).image = << >>
  /\ Declared(r, 1).image_tag /= << >>

FlagSettled == pc = "flag" /\ pc' /= "flag"

\* It settles with answer a.
FlagAnswers(a) ==
  FlagSettled /\ [key |-> Op("flag", Current.name, ci), val |-> a] \in answers'

\* It settles and the branch-default strategy is chosen.
ChoosesBranchDefault ==
  \/ FlagAnswers("false")
  \/ FlagAnswers("true") /\ options.commitId = << >>

\* The image of the container in hand after the step.
ImageAfter == Entry(localConfig', Containers(Current)[ci].name).image

\* C12: under the branch-default strategy a container whose tag has no
\* lookup entry for the effective branch (the tag is unknown, or the branch
\* is unknown under the tag) makes image resolution throw "Image ... not
\* found for defined branch"; no image is assigned to the container, and the
\* resource fails: the error reaches the resource boundary, where the
\* resource is recorded as failed and allowFailure() decides between going
\* on and rejecting.
C12_MissingLookupThrows ==
  /\ [][(ChoosesBranchDefault /\ ~HasLookup(Current, ci)) =>
          /\ pc' = "caught"
          /\ err' = "ImageNotFound"
          /\ ImageAfter = << >>]_vars
  /\ [][(pc = "caught" /\ err = "ImageNotFound" /\ pc' /= pc) =>
          /\ ImageOf(Current, ci) = << >>
          /\ outcomes' = Append(outcomes,
               [res |-> Current.name, result |-> "failed", err |-> "ImageNotFound"])
          /\ pc' = IF clusterDef.allowFailure THEN "settled" ELSE "rejected"]_vars

\* C12 witness: a resource whose tag is unknown has failed with the lookup
\* error, and a resource whose tag is known but not for its branch is failing
\* with it, the flag having answered false although a commit id was supplied.
C12_Witness ==
  /\ pc = "caught"
  /\ err = "ImageNotFound"
  /\ Declared(Current, ci).image_tag \in DOMAIN imageResourceDefs
  /\ ~HasLookup(Current, ci)
  /\ FlagAnswered(Current, ci, "false")
  /\ options.commitId /= << >>
  /\ ImageOf(Current, ci) = << >>
  /\ \E k \in 1..Len(outcomes) :
       /\ outcomes[k].result = "failed"
       /\ outcomes[k].err = "ImageNotFound"
       /\ Declared(ResourceNamed(outcomes[k].res), 1).image_tag
            \notin DOMAIN imageResourceDefs

\* artifact.name of the k-th container: its declared name, else the name of
\* the resource.
ArtifactName(r, k) ==
  IF Declared(r, k).name /= "" THEN Declared(r, k).name ELSE r.name

\* The two reports of setImage's catch for an artifact.
ErrorSettingImage(name) ==
  << Ev("warn", "setImage", "Error setting image", name),
     Ev("metric", "setImage", "Kitserver - Error setting image", name) >>

\* A resource of several containers none of which declares `primary`.
SeveralNoPrimary(r) ==
  /\ Len(Containers(r)) > 1
  /\ \A k \in 1..Len(Containers(r)) : Declared(r, k).primary = "undef"

\* Positions after the container loop's verification, and the catch.
AfterBuild ==
  pc \in {"file", "read", "save", "copy", "svc", "svcread", "svcsave", "caught"}

ShaEligible(r, k) ==
  /\ Declared(r, k).image = << >>
  /\ Declared(r, k).image_tag /= << >>
  /\ Len(Containers(r)) = 1 \/ Declared(r, k).primary = "true"

\* The flag answers enabled, with a commit id, for such a container: it
\* gets the image quay.io/<image_tag>:release-<commitId>.
SynthesizesRelease ==
  (FlagAnswers("true") /\ options.commitId /= << >> /\ ShaEligible(Current, ci)) =>
    /\ ImageAfter = <<"q", "/">> \o Declared(Current, ci).image_tag
                      \o <<":", "r", "-">> \o options.commitId
    /\ pc' /= "caught"

\* Some container of the resource in hand got its image that way.
ShaResolved ==
  /\ options.commitId /= << >>
  /\ \E k \in 1..Len(Containers(Current)) :
       ShaEligible(Current, k) /\ FlagAnswered(Current, k, "true")

\* The commit verification of the configuration built does not throw.
VerificationPasses ==
  ~verifyImagesForCommitId(ConfigImages(localConfig), options.commitId).throws

HexOnly(s) == \A i \in 1..Len(s) : s[i] \in HexChars

C15_FlagFailureFallsBack ==
  [][(FlagAnswers("reject") /\ HasLookup(Current, ci)) =>
       /\ events' /= events
       /\ ImageAfter = Lookup(Current, ci)
       /\ pc' /= "caught"]_vars

\* Image resolution is reached for a container that has a tag and no image.
ResolvesImage ==
  /\ pc = "image"
  /\ pc' /= "image"
  /\ Entry(localConfig, Containers(Current)[ci].name).image = << >>
  /\ Declared(Current, ci).image_tag /= << >>

\* C16 as stated: without a flag client, image resolution of a container
\* with a tag uses the branch lookup, whether or not a commit id was
\* supplied, emits a metric of kind "event" saying that the client is
\* undefined, and the build goes on with the looked-up image.
C16_NoFlagClientUsesDefault ==
  [][(ResolvesImage /\ ~launchDarkly /\ HasLookup(Current, ci)) =>
       /\ ImageAfter = Lookup(Current, ci)
       /\ pc' /= "caught"
       /\ Len(events') > Len(events)
       /\ events'[Len(events')].sev = "metric"]_vars

\* The two reports of setImageSHA when no commit id was passed in.
NoShaPassedIn(name) ==
  << Ev("warn", "setImageSHA", "No SHA passed in", name),
     Ev("metric", "setImageSHA", "No SHA passed in", name) >>

\* C17: when the flag answers enabled and no commit id was supplied, image
\* resolution reports "No SHA passed in" by a warning and a metric and
\* resolves the image by the branch lookup: the container gets the
\* looked-up image, or the lookup error when there is no entry; no release
\* image is synthesized and the primary check is not applied, whatever the
\* number of containers and their `primary`.
C17_NoShaFallsBack ==
  [][(FlagAnswers("true") /\ options.commitId = << >>) =>
       LET reports == NoShaPassedIn(ArtifactName(Current, ci))
       IN /\ Len(events') >= Len(events) + 2
          /\ SubSeq(events', Len(events) + 1, Len(events) + 2) = reports
          /\ ~(pc' = "caught" /\ err' = "NoPrimary")
          /\ IF HasLookup(Current, ci)
             THEN /\ ImageAfter = Lookup(Current, ci)
                  /\ events' = events \o reports
                  /\ pc' /= "caught"
             ELSE /\ ImageAfter = << >>
                  /\ pc' = "caught"
                  /\ err' = "ImageNotFound"]_vars

\* C17 witness: a two-container resource without a primary was resolved by
\* the branch lookup after the flag answered enabled without a commit id.
C17_Witness ==
  /\ Built
  /\ SeveralNoPrimary(Current)
  /\ options.commitId = << >>
  /\ FlagAnswered(Current, 1, "true")
  /\ ImageOf(Current, 1) = Lookup(Current, 1)
  /\ \E k \in 1..Len(events) - 1 :
       SubSeq(events, k, k + 1) = NoShaPassedIn(ArtifactName(Current, 1))

\* The container loop and the verification have passed for the resource in
\* hand: _createLocalConfiguration has fulfilled.
BuildSucceeded ==
  pc \in {"file", "read", "save", "copy", "svc", "svcread", "svcsave"}

\* The branch lookup resolved some container of the resource in hand on the
\* flag's answer false.
ResolvedOnFlagOff ==
  \E k \in 1..Len(Containers(Current)) :
    /\ FlagAnswered(Current, k, "false")
    /\ ImageOf(Current, k) = Lookup(Current, k)

C19_FeatureDisabledMetric ==
  [][FlagAnswers("false") =>
       /\ \E k \in (Len(events) + 1)..Len(events') :
            events'[k].sev = "metric" /\ events'[k].what = "feature.disabled"
       /\ \A k \in (Len(events) + 1)..Len(events') :
            events'[k].sev = "metric" => events'[k].what = "feature.disabled"]_vars

\* Image resolution is reached for a container whose image is set.
ReachesSetImage ==
  /\ pc = "image"
  /\ pc' /= "image"
  /\ Entry(localConfig, Containers(Current)[ci].name).image /= << >>

\* C20: when a container's image is already set where image resolution is
\* reached, the only effect is the "already defined" warning: the
\* configuration and so the image are unchanged, the flag is not queried,
\* nothing is looked up and no error is raised, with or without an image
\* tag and a lookup entry for it, and with or without a flag client.  The
\* flag is never queried for such a container and the configuration built
\* carries the image it declared.
C20_SetImageIsKept ==
  /\ [][ReachesSetImage =>
          /\ events' = Append(events,
               Ev("warn", "_createLocalConfiguration", "Image already defined",
                  ArtifactName(Current, ci)))
          /\ localConfig' = localConfig
          /\ calls' = calls
          /\ inflight' = inflight
          /\ answers' = answers
          /\ pc' /= "caught"]_vars
  /\ [](\A k \in 1..Len(calls) :
          calls[k].kind = "flag" =>
            Declared(ResourceNamed(calls[k].res), calls[k].con).image = << >>)
  /\ [](Built =>
          \A k \in 1..Len(Containers(Current)) :
            Declared(Current, k).image /= << >> =>
              ImageOf(Current, k) = Declared(Current, k).image)

\* C20 witness: a resource was built, without a flag client, whose
\* containers had their images set: one has no image tag, the other a tag
\* without a lookup entry; both kept their images and both were warned about.
C20_Witness ==
  /\ Built
  /\ ~launchDarkly
  /\ \E k, l \in 1..Len(Containers(Current)) :
       /\ Declared(Current, k).image /= << >>
       /\ Declared(Current, k).image_tag = << >>
       /\ ImageOf(Current, k) = Declared(Current, k).image
       /\ Declared(Current, l).image /= << >>
       /\ Declared(Current, l).image_tag /= << >>
       /\ ~HasLookup(Current, l)
       /\ ImageOf(Current, l) = Declared(Current, l).image
       /\ \E m, n \in 1..Len(events) :
            /\ m < n
            /\ events[m] = Ev("warn", "_createLocalConfiguration",
                              "Image already defined", ArtifactName(Current, k))
            /\ events[n] = Ev("warn", "_createLocalConfiguration",
                              "Image already defined", ArtifactName(Current, l))

\* ------------------------------------------- the local configuration
\* Image resolution is reached for a container without image and tag.
ReachesUntagged ==
  /\ pc = "image"
  /\ pc' /= "image"
  /\ Entry(localConfig, Containers(Current)[ci].name).image = << >>
  /\ Declared(Current, ci).image_tag = << >>

\* The two reports for a container without an image tag.
NoImageTagFound(name) ==
  << Ev("warn", "_createLocalConfiguration", "No image tag found", name),
     Ev("metric", "_createLocalConfiguration", "No image tag found", name) >>

\* A container declared without image and without image tag.
Untagged(r, k) ==
  Declared(r, k).image = << >> /\ Declared(r, k).image_tag = << >>

\* C21: for a container with no image and no image tag, image resolution
\* emits the "No image tag found" warning (and metric), leaves the
\* configuration as it is, queries nothing and does not fail: the loop goes
\* on, and in the configuration built the container's entry exists with its
\* image unset.
C21_UntaggedIsNotFatal ==
  /\ [][ReachesUntagged =>
          /\ events' = events \o NoImageTagFound(ArtifactName(Current, ci))
          /\ localConfig' = localConfig
          /\ calls' = calls
          /\ inflight' = inflight
          /\ pc' \in {"container", "verify"}]_vars
  /\ [](Built =>
          \A k \in 1..Len(Containers(Current)) :
            Untagged(Current, k) =>
              /\ EntryIndex(localConfig, Containers(Current)[k].name) /= 0
              /\ ImageOf(Current, k) = << >>)

\* C21 witness: the build of a resource with a container without image and
\* tag has fulfilled: the container was warned about, its entry exists and
\* carries no image.
C21_Witness ==
  /\ BuildSucceeded
  /\ \E k \in 1..Len(Containers(Current)) :
       /\ Untagged(Current, k)
       /\ EntryIndex(localConfig, Containers(Current)[k].name) /= 0
       /\ ImageOf(Current, k) = << >>
       /\ \E m \in 1..Len(events) - 1 :
            SubSeq(events, m, m + 1) = NoImageTagFound(ArtifactName(Current, k))

\* C22: building a LocalConfiguration never changes its inputs: no step of
\* the build, whether it ends fulfilled or rejected, changes the cluster's
\* default configuration or a resource spec with its container artifacts
\* (imageResourceDefs is only read); the LocalConfiguration and its
\* container entries are objects distinct from the default configuration
\* and from the declared artifacts.
C22_InputsUnchanged ==
  /\ [][clusterDef' = clusterDef]_vars
  /\ [](/\ ~localConfig.same
        /\ \A k \in 1..Len(localConfig.containers) : ~localConfig.containers[k].same)

\* C22 witness: a configuration was built whose name, branch, service
\* descriptor and container entry (name and image) differ from the default
\* configuration and from the declared artifact, which are as declared.
C22_Witness ==
  /\ BuildSucceeded
  /\ localConfig.name /= clusterDef.configuration.name
  /\ localConfig.branch /= clusterDef.configuration.branch
  /\ localConfig.svc /= clusterDef.configuration.svc
  /\ clusterDef.configuration = DefaultConfiguration
  /\ Entry(localConfig, Containers(Current)[1].name).name /= Declared(Current, 1).name
  /\ ImageOf(Current, 1) /= Declared(Current, 1).image
  /\ \E k \in 1..Len(Catalogue) : Current = Catalogue[k]

BuiltFrom(entry, key, declared, resourceName) ==
  /\ entry.key = key
  /\ [entry.art EXCEPT !.image = << >>, !.env = << >>] =
       [declared EXCEPT !.image = << >>, !.env = << >>,
                        !.name = IF @ /= "" THEN @ ELSE resourceName]

\* C24: the LocalConfiguration built for a resource has exactly one
\* container entry per key of the resource's `containers`, under that key
\* and built from that container, or, when the resource has no
\* `containers`, exactly one entry under the resource name built from the
\* resource spec itself; its name is the resource name and its branch the
\* resource's branch, or else the cluster's default branch.
C24_OneEntryPerContainer ==
  Built =>
    LET r == Current
        entries == localConfig.containers
    IN /\ IF r.hasContainers
          THEN /\ Len(entries) = Len(r.containers)
               /\ \A k \in 1..Len(r.containers) :
                    BuiltFrom(entries[k], r.containers[k].name,
                              r.containers[k].container, r.name)
          ELSE /\ Len(entries) = 1
               /\ BuiltFrom(entries[1], r.name, r.self, r.name)
       /\ \A k, l \in 1..Len(entries) : entries[k].key = entries[l].key => k = l
       /\ localConfig.name = r.name
       /\ localConfig.branch =
            IF r.self.branch /= "" THEN r.self.branch ELSE defaultBranch

\* C24 witness: a resource without `containers` and with a branch of its
\* own has been built after a resource with two containers.
C24_Witness ==
  /\ Built
  /\ ~Current.hasContainers
  /\ Len(localConfig.containers) = 1
  /\ localConfig.containers[1].key = Current.name
  /\ localConfig.branch /= defaultBranch
  /\ \E b \in 1..Len(built) :
       /\ Len(built[b].config.containers) = 2
       /\ ResourceNamed(built[b].res).hasContainers
       /\ built[b].config.branch = defaultBranch

\* The history entries that issue a call of the kind for a container.
Issued(kind, res, con) ==
  {k \in 1..Len(calls) : calls[k] = Call("call", kind, res, con, "")}

\* C25: nothing is retried inside the core: for every container fetch is
\* called at most once and the flag queried at most once.  When a fetch
\* fails, _createLocalConfiguration rejects with that failure and leaves
\* the configuration as it was; nothing is fetched or resolved for the
\* container that failed or for the later containers of the resource, and
\* the failure reaches the resource boundary, where the resource is
\* recorded as failed and allowFailure() decides between going on and
\* rejecting.
C25_NoRetry ==
  /\ [](\A k \in 1..Len(calls) :
          (calls[k].ev = "call" /\ calls[k].kind \in {"fetch", "flag"}) =>
            Cardinality(Issued(calls[k].kind, calls[k].res, calls[k].con)) = 1)
  /\ [](\A k \in 1..Len(calls) :
          calls[k] = Call("settle", "fetch", calls[k].res, calls[k].con, "fail") =>
            \A l \in 1..Len(calls) :
              (l > k /\ calls[l].res = calls[k].res) =>
                calls[l].kind \notin {"fetch", "flag"})
  /\ [][(pc = "fetch" /\ pc' /= pc
           /\ calls' = Append(calls, Call("settle", "fetch", Current.name, ci, "fail"))) =>
          /\ pc' = "caught"
          /\ err' = "FetchFailed"
          /\ localConfig' = localConfig
          /\ events' = events]_vars
  /\ [][(pc = "caught" /\ err = "FetchFailed" /\ pc' /= pc) =>
          /\ outcomes' = Append(outcomes,
               [res |-> Current.name, result |-> "failed", err |-> "FetchFailed"])
          /\ pc' = IF clusterDef.allowFailure THEN "settled" ELSE "rejected"
          /\ calls' = calls]_vars

\* C25 witness: the fetch for the first of two containers failed once, the
\* resource failed with it without a call for the second container, and the
\* run went on to fetch once for the next resource.
C25_Witness ==
  /\ \E k \in 1..Len(outcomes) :
       /\ outcomes[k].err = "FetchFailed"
       /\ Len(Containers(ResourceNamed(outcomes[k].res))) = 2
       /\ Cardinality(Issued("fetch", outcomes[k].res, 1)) = 1
       /\ Issued("fetch", outcomes[k].res, 2) = {}
       /\ Issued("flag", outcomes[k].res, 1) = {}
  /\ pc = "verify"
  /\ Cardinality(Issued("fetch", Current.name, 1)) = 1
  /\ Cardinality(Issued("flag", Current.name, 1)) = 1

\* The env of the entry built for the k-th container of a returned
\* configuration.
BuiltEnv(b, k) == b.config.containers[k].art.env

\* The entries of an env list.
EnvEntries(env) == {env[k] : k \in 1..Len(env)}

IssuesWrite ==
  \E k \in (Len(calls) + 1)..Len(calls') :
    calls'[k].ev = "call" /\ calls'[k].kind \in {"copy", "save", "svcsave"}

\* C27: whenever a file copy or save for the cluster is issued, the
\* creation of the output directory has completed: the directory exists.
C27_DirectoryExistsBeforeWrite == [][IssuesWrite => dirExists]_vars

\* C28: within one run no two distinct resources write (copy, rendered
\* file or service file) to the same file path.
C28_DistinctWritePaths ==
  \A i, j \in 1..Len(writes) :
    writes[i].res /= writes[j].res => writes[i].path /= writes[j].path

\* process() with every step of the coroutine chain taken and every
\* external call settling in the end.
\* The runs that start without the output directory: the check of the
\* directory and its creation are both among the calls that have to settle.
InitLive == Init /\ ~dirExists

SpecLive == InitLive /\ [][Next]_vars /\ WF_vars(Next)

\* The promise process() returned has settled.
ProcessSettled == pc \in {"fulfilled", "rejected"}

\* C29: when every external call settles in the end, the promise returned
\* by process() eventually fulfils or rejects.
C29_ProcessSettles == <>ProcessSettled

\* C29 witness: process() fulfilled after two resources went through their
\* external calls and a file was written.
C29_Witness ==
  /\ pc = "fulfilled"
  /\ Len(outcomes) = 2
  /\ writes /= << >>
  /\ \E k \in 1..Len(calls) : calls[k].kind = "fetch"

\* The last request SaveToElroy made settles in this step with a failure.
RequestFails ==
  /\ Len(eRequests') = Len(eRequests) + 1
  /\ ~Succeeds(eRequests'[Len(eRequests')].status)

\* The status the request of this step failed with.
FailedStatus == eRequests'[Len(eRequests')].status

\* The saves attempted so far: each begins with the GET of retrieveCluster.
Attempts == Cardinality({k \in 1..Len(eRequests) : eRequests[k].method = "GET"})

\* C30: when a request of SaveToElroy fails with a status of 502 or more
\* and fewer than 3 retries were made, the whole save is attempted again;
\* a failure with a lower status is never retried; there are never more
\* than 4 attempts, and after the last one SaveToElroy rejects.
C30_RetriesOn502 ==
  /\ [][RequestFails =>
          IF FailedStatus >= 502 /\ Attempts' < 4
          THEN ePc' = "delay"
          ELSE ePc' \in {"rejected", "post"}]_vars
  /\ [](Attempts <= 4)

\* The k-th request SaveToElroy made.
Request(k) == eRequests[k]

\* C31: SaveToElroy chooses the write from the read.  An update (PUT) is
\* only made right after a retrieve that succeeded, a create (POST) only
\* right after a retrieve that failed with 404; after a successful
\* retrieve the update is what is pending or made next, after a GET 404
\* the create; and a 404 answered to the update or the create is the last
\* request and leaves SaveToElroy rejected.
C31_WriteFollowsRead ==
  /\ \A k \in 1..Len(eRequests) :
       /\ Request(k).method = "PUT" =>
            k > 1 /\ Request(k - 1).method = "GET" /\ Succeeds(Request(k - 1).status)
       /\ Request(k).method = "POST" =>
            k > 1 /\ Request(k - 1).method = "GET" /\ Request(k - 1).status = 404
       /\ (Request(k).method = "GET" /\ Succeeds(Request(k).status)) =>
            IF k = Len(eRequests) THEN ePc = "put" ELSE Request(k + 1).method = "PUT"
       /\ (Request(k).method = "GET" /\ Request(k).status = 404) =>
            IF k = Len(eRequests) THEN ePc = "post" ELSE Request(k + 1).method = "POST"
       /\ (Request(k).method \in {"PUT", "POST"} /\ Request(k).status = 404) =>
            k = Len(eRequests) /\ ePc = "rejected"
  /\ ePc = "put" =>
       eRequests /= << >> /\ Succeeds(Request(Len(eRequests)).status)
  /\ ePc = "post" =>
       eRequests /= << >> /\ Request(Len(eRequests)) = [method |-> "GET", status |-> 404]

\* C31 witness: after a retry, the retrieve found no cluster, the create
\* was answered 404 and SaveToElroy rejected; the first attempt had
\* retrieved the cluster and issued an update.
C31_Witness ==
  /\ ePc = "rejected"
  /\ Len(eRequests) = 4
  /\ Request(1) = [method |-> "GET", status |-> 200]
  /\ Request(2).method = "PUT"
  /\ Request(3) = [method |-> "GET", status |-> 404]
  /\ Request(4) = [method |-> "POST", status |-> 404]

\* C39: when SaveToElroy rejects, it rejects with the failure reason of
\* the request that failed last, whatever the failure, a failure without
\* HTTP response included.
C39_RejectsWithOriginalReason ==
  ePc = "rejected" =>
    /\ eRequests /= << >>
    /\ eReason = Reason(Request(Len(eRequests)).method, Request(Len(eRequests)).status)

\* RemoveDeploymentEnvironments has gone through the list Elroy answered.
ListHandled == dPc \in {"all", "fulfilled", "rejected"} /\ ~dList.failed

\* The environments of the list that are active and have the name of no
\* cluster definition, in the order returned.
ActiveUnmatched ==
  SelectSeq(dList.items, LAMBDA e : e.active /\ e.name \notin dDefs.names)

\* One update with active = false was issued for each environment that is
\* active and matches no cluster definition, and no other update.
ExactlyDeactivated ==
  /\ Len(dUpdates) = Len(ActiveUnmatched)
  /\ \A k \in 1..Len(dUpdates) :
       dUpdates[k] = [name |-> ActiveUnmatched[k].name, active |-> FALSE]

\* Neither guard trips on the list.
GuardsPass ==
  dList.count <= MaxCount /\ DefsLength(dDefs) >= dList.count - CountMargin

\* C32 as stated: once the list is handled, exactly the active
\* environments that match no cluster definition have been given one
\* update with active = false.
C32_DeactivatesExactly == ListHandled => ExactlyDeactivated

\* C32: when the reported count is at most 500 and the cluster definitions
\* are no fewer than the count minus 50, exactly the active environments
\* that match no cluster definition are given one update with
\* active = false; in every case no environment that matches a cluster
\* definition or is inactive is updated.
C32_DeactivatesExactlyPastGuards ==
  /\ (ListHandled /\ GuardsPass) => ExactlyDeactivated
  /\ \A k \in 1..Len(dUpdates) :
       /\ dUpdates[k].name \notin dDefs.names
       /\ ~dUpdates[k].active
       /\ \E j \in 1..Len(dList.items) :
            dList.items[j] = [name |-> dUpdates[k].name, active |-> TRUE]

\* C32 witness: of two environments returned, the active one without
\* cluster definition was updated and the one with a definition was not.
C32_Witness ==
  /\ dPc = "fulfilled"
  /\ Len(dList.items) = 2
  /\ \E j \in 1..2 : dList.items[j].name \in dDefs.names /\ dList.items[j].active
  /\ Len(dUpdates) = 1
  /\ dUpdates[1].name \notin dDefs.names

\* C36: when the reported count exceeds 500, or the cluster definitions
\* are fewer than the count minus 50, no update is issued and the call
\* fulfils.
C36_GuardsDeactivateNothing ==
  (dPc \notin {"idle", "list"} /\ ~dList.failed
     /\ (dList.count > MaxCount \/ DefsLength(dDefs) < dList.count - CountMargin)) =>
    /\ dUpdates = << >>
    /\ dInflight = {}
    /\ dPc = "fulfilled"

\* C36 witness: the count exceeded the limit while the cluster
\* definitions were not too few, an active environment without definition
\* was in the list, and the call fulfilled without an update.
C36_Witness ==
  /\ dPc = "fulfilled"
  /\ dList.count > MaxCount
  /\ DefsLength(dDefs) >= dList.count - CountMargin
  /\ ActiveUnmatched /= << >>
  /\ dUpdates = << >>

\* fetch has settled.
FetchSettled == xPc \in {"fulfilled", "rejected"}

\* The requests made went to these endpoints, in order.
Endpoints == [k \in 1..Len(xRequests) |-> xRequests[k].endpoint]

\* fetch went past its argument checks and no flag client is configured.
NoFlagClient ==
  xClient.annotated /\ ~xClient.clusterIsString /\ ~xClient.launchDarkly

\* fetch fulfilled with a result for a response of status 200.
FulfilledOK ==
  xPc = "fulfilled" /\ xResult.defined /\ xResponse.statusCode = 200
    /\ xResponse.hasValues

\* C33: once fetch has settled, a flag that answered true means exactly one
\* request, to the v4 endpoint, and an env that is the values of the
\* response unchanged; a flag that answered false, or no flag client, means
\* exactly one request, to the v3 endpoint, and an env that is the
\* name/value list converted from the values map.
C33_EndpointFollowsFlag ==
  FetchSettled =>
    /\ xFlag = "true" =>
         /\ Endpoints = << envAPIV4 >>
         /\ FulfilledOK => xResult.env = ValuesV4
    /\ (xFlag = "false" \/ NoFlagClient) =>
         /\ Endpoints = << envAPIV3 >>
         /\ FulfilledOK =>
              xResult.env = << EnvVar("ONE", <<"1">>), EnvVar("THREE", <<"3">>) >>


\* The call failed: the request failed, or its response has a status that
\* is neither 200 nor 206.
CallFailed ==
  /\ Len(xRequests) > 0
  /\ xResponse # NoResponseYet
  /\ xResponse.failed \/ xResponse.statusCode \notin {200, 206}

\* The number of failure metrics emitted.
FailureMetrics ==
  Cardinality({k \in 1..Len(xMetrics) :
                 xMetrics[k] = "Failure getting envs through envapi"})

\* C38: once fetch has settled after a failed call, it has rejected with
\* an Error carrying a message, exactly one request was made, and exactly
\* one failure metric was emitted when an events sink is configured.
C38_FailedCallRejects ==
  (FetchSettled /\ CallFailed) =>
    /\ xResult.state = "rejected"
    /\ xResult.message # ""
    /\ Len(xRequests) = 1
    /\ xClient.events => FailureMetrics = 1

\* The k-th call record is the failure of a read, a render input or a write
\* made while a resource is processed.
IsProcessingFailure(k) ==
  /\ calls[k].ev = "settle"
  /\ calls[k].kind \in {"read", "save", "copy", "svcread", "svcsave"}
  /\ calls[k].out = "fail"

\* The resource boundary saw a failure of the resource.
ReachedBoundary(name) ==
  \E k \in 1..Len(outcomes) :
    outcomes[k].res = name /\ outcomes[k].result = "failed"

\* The boundary warned about the resource.
BoundaryWarned(name) ==
  \E k \in 1..Len(events) :
    /\ events[k].sev = "warn"
    /\ events[k].by = "processSingleResource"
    /\ events[k].res = name

\* C34: once process() has settled, every failure raised while a resource
\* was processed, a failed read or save of a ".mustache" resource
\* included, has reached the boundary of processSingleResource: with
\* allowFailure() false process() has rejected, with allowFailure() true
\* the boundary has emitted a warning for the resource.
C34_BoundaryDecides ==
  pc \in {"fulfilled", "rejected"} =>
    \A k \in 1..Len(calls) :
      IsProcessingFailure(k) =>
        /\ ReachedBoundary(calls[k].res)
        /\ IF clusterDef.allowFailure
           THEN BoundaryWarned(calls[k].res)
           ELSE pc = "rejected"

\* The positions in the history where the commit verification of a
\* resource ran.
VerifyCalls(name) ==
  {k \in 1..Len(calls) : calls[k].ev = "verify" /\ calls[k].res = name}

\* The k-th call record belongs to the image resolution of a container:
\* the plugin's fetch or the flag query of setImage.
IsResolution(k) == calls[k].kind \in {"fetch", "flag"}

\* The k-th call record belongs to rendering or writing.
IsOutput(k) ==
  \/ calls[k].ev = "render"
  \/ calls[k].kind \in {"read", "save", "copy", "svcread", "svcsave"}

\* The build of the local configuration of a resource fulfilled.
BuildFulfilled(name) == \E b \in 1..Len(built) : built[b].res = name

\* C35: in a run of process(), the commit verification of a resource runs
\* at most once, and exactly once when its build gets past the container
\* loop; it runs with an entry for every container, after every fetch and
\* flag query of the resource has settled and before anything of the
\* resource is read, rendered or written; and a resource whose build did
\* not fulfil has no write issued and no call of rendering or writing.
C35_VerifiedOnceBeforeOutput ==
  \A i \in 1..Len(clusterDef.resources) :
    LET r == ResourceAt(clusterDef.resources, i)
        name == r.name
    IN /\ Cardinality(VerifyCalls(name)) <= 1
       /\ BuildFulfilled(name) => Cardinality(VerifyCalls(name)) = 1
       /\ \A k \in VerifyCalls(name) :
            /\ calls[k].con = Len(Containers(r))
            /\ \A j \in 1..Len(calls) :
                 calls[j].res = name =>
                   /\ IsResolution(j) => j < k
                   /\ IsOutput(j) => j > k
            /\ \A c \in 1..Len(Containers(r)) :
                 ~ (Op("fetch", name, c) \in inflight
                      \/ Op("flag", name, c) \in inflight)
       /\ ~BuildFulfilled(name) =>
            /\ \A w \in 1..Len(writes) : writes[w].res # name
            /\ \A j \in 1..Len(calls) : calls[j].res = name => ~IsOutput(j)

\* A resource of two containers was verified after two flag queries and
\* then saved, and the verification of another resource failed.
C35_Witness ==
  /\ \E k \in 1..Len(calls) :
       /\ calls[k].ev = "verify"
       /\ calls[k].out = "ok"
       /\ calls[k].con = 2
       /\ \E j \in 1..Len(calls) :
            calls[j].res = calls[k].res /\ calls[j].kind = "flag" /\ calls[j].con = 2
       /\ \E w \in 1..Len(writes) : writes[w].res = calls[k].res
  /\ \E k \in 1..Len(calls) : calls[k].ev = "verify" /\ calls[k].out = "throws"

\* The image a fulfilled build holds for the k-th container of its
\* resource.
BuiltImage(b, r, k) == Entry(b.config, Containers(r)[k].name).image

\* C37: in every LocalConfiguration that _createLocalConfiguration
\* fulfilled with, every container of the resource that declared an
\* image_tag has a non-empty image.
C37_TaggedContainersHaveImage ==
  \A n \in 1..Len(built) :
    \A i \in 1..Len(clusterDef.resources) :
      LET r == ResourceAt(clusterDef.resources, i)
      IN r.name = built[n].res =>
           \A k \in 1..Len(Containers(r)) :
             Declared(r, k).image_tag /= << >> =>
               BuiltImage(built[n], r, k) /= << >>

====
